---- MODULE Spec2Model ----
(***************************************************************************)
(* Outfit-to-wardrobe matching of the outfitAnalyzer service.             *)
(*                                                                         *)
(* Source: ml-backend/services/outfitAnalyzer                              *)
(*   src/code/outfit_with_wardrobe.py  normalize, get_text_similarity,     *)
(*                                     get_match_score, find_best_match,   *)
(*                                     match_outfit_with_wardrobe          *)
(*   src/code/outfit_service.py        generate_outfit_recommendation      *)
(*   app.py                            recommend_outfit (POST /analyze)    *)
(*                                                                         *)
(* Text is a sequence of one-character strings.  Python dicts are records  *)
(* with a "keys" field holding the keys that are present.  Scores are      *)
(* Python floats (IEEE 754 binary64), computed with the rounding of each   *)
(* operation.                                                              *)
(***************************************************************************)
EXTENDS Integers, Sequences, FiniteSets, TLC

----------------------------------------------------------------------------
(* Bounds of the model *)

\* wardrobe items of a request
MaxWardrobe == 2
\* candidate outfits of a suggestion
MaxOutfits == 2
\* clothing items of a suggestion, over all its outfits
MaxItems == 3

----------------------------------------------------------------------------
(* Values *)

\* Python None, where a text is expected
None == << "<None>" >>
\* Python None, where an item_id is expected
NoneId == "<None>"

Min(x, y) == IF x < y THEN x ELSE y

----------------------------------------------------------------------------
(* Python float: IEEE 754 binary64, round to nearest, ties to even *)

\* A float x with |x| < 64 that is a whole multiple of 2^-60 is
\* << sign, a, b, c >>: sign * (a * LimbBase^2 + b * LimbBase + c) * 2^-60.
\* Zero has sign 1.  The scores of this program are such floats: a similarity
\* is 0 or at least 2^-5, so that its last place is at least 2^-58.
LimbBits == 11 * 2
LimbBase == 2 ^ LimbBits
FractionBits == 6 * 10
\* bits of the significand of a binary64
SignificandBits == 50 + 3

\* Op on the value of x (of x and y): the argument is evaluated once, however
\* often Op reads its parameter
OnValue(Op(_), x) == CHOOSE r \in { Op(v) : v \in { x } } : TRUE
OnValues(Op(_, _), x, y) == CHOOSE r \in { Op(v[1], v[2]) : v \in { << x, y >> } } : TRUE

Mag(x) == << x[2], x[3], x[4] >>
FloatOf(sign, m) ==
  IF m = << 0, 0, 0 >> THEN << 1, 0, 0, 0 >> ELSE << sign, m[1], m[2], m[3] >>
FloatZero == << 1, 0, 0, 0 >>

\* the carries out of the two low limbs
Carry(m) ==
  LET c == m[3] % LimbBase
      b1 == m[2] + (m[3] \div LimbBase)
      b == b1 % LimbBase
      a == m[1] + (b1 \div LimbBase)
  IN << a, b, c >>

MagAdd(m, n) == Carry(<< m[1] + n[1], m[2] + n[2], m[3] + n[3] >>)

MagLess(m, n) ==
  \/ m[1] < n[1]
  \/ m[1] = n[1] /\ m[2] < n[2]
  \/ m[1] = n[1] /\ m[2] = n[2] /\ m[3] < n[3]

\* m - n, for n <= m
MagSub(m, n) ==
  LET c1 == m[3] - n[3]
      bc == IF c1 < 0 THEN 1 ELSE 0
      b1 == m[2] - n[2] - bc
      bb == IF b1 < 0 THEN 1 ELSE 0
  IN << m[1] - n[1] - bb, b1 + bb * LimbBase, c1 + bc * LimbBase >>

\* m / 2 and m * 2
MagHalf(m) ==
  << m[1] \div 2, (m[2] + (m[1] % 2) * LimbBase) \div 2,
     (m[3] + (m[2] % 2) * LimbBase) \div 2 >>
MagDouble(m) == Carry(<< 2 * m[1], 2 * m[2], 2 * m[3] >>)

\* the number of bits of a limb: the least k in 0..from with n < 2^k
RECURSIVE BitLengthFrom(_, _)
BitLengthFrom(n, from) ==
  IF from = 0 \/ n >= 2 ^ (from - 1) THEN from ELSE BitLengthFrom(n, from - 1)
BitLength(n) == BitLengthFrom(n, LimbBits)

\* the number of bits of a magnitude
MagBits(m) ==
  IF m[1] > 0 THEN 2 * LimbBits + BitLength(m[1])
  ELSE IF m[2] > 0 THEN LimbBits + BitLength(m[2])
  ELSE BitLength(m[3])

\* the rounding of every float operation: to SignificandBits bits, to
\* nearest, ties to even; sticky says that the exact value has nonzero bits
\* below 2^-60
round_mag(m, sticky) ==
  LET n == MagBits(m) - SignificandBits
  IN IF n <= 0 THEN m
     ELSE LET unit == 2 ^ n
              half == unit \div 2
              rem == m[3] % unit
              odd == (m[3] \div unit) % 2 = 1
              up == \/ rem > half
                    \/ rem = half /\ (sticky \/ odd)
          IN Carry(<< m[1], m[2], m[3] - rem + (IF up THEN unit ELSE 0) >>)

\* a mutant of RoundMag: arithmetic without rounding
RoundMag_exact(m, sticky) == m
RoundMag(m, sticky) == OnValues(round_mag, m, sticky)

\* float(n), and an int wherever it meets a float
from_int(n) ==
  IF n < 0 THEN << -1, (-n) * 2 ^ (FractionBits - 2 * LimbBits), 0, 0 >>
  ELSE << 1, n * 2 ^ (FractionBits - 2 * LimbBits), 0, 0 >>

FromInt(n) == OnValue(from_int, n)

float_neg(x) == FloatOf(-x[1], Mag(x))
FloatNeg(x) == OnValue(float_neg, x)

\* x + y
float_add(x, y) ==
  IF x[1] = y[1] THEN FloatOf(x[1], RoundMag(MagAdd(Mag(x), Mag(y)), FALSE))
  ELSE IF MagLess(Mag(x), Mag(y))
  THEN FloatOf(y[1], RoundMag(MagSub(Mag(y), Mag(x)), FALSE))
  ELSE FloatOf(x[1], RoundMag(MagSub(Mag(x), Mag(y)), FALSE))

FloatAdd(x, y) == OnValues(float_add, x, y)

\* x - y
FloatSub(x, y) == FloatAdd(x, FloatNeg(y))

\* x < y
float_less(x, y) ==
  IF x[1] # y[1] THEN x[1] < y[1]
  ELSE IF x[1] = 1 THEN MagLess(Mag(x), Mag(y))
  ELSE MagLess(Mag(y), Mag(x))

FloatLess(x, y) == OnValues(float_less, x, y)

\* x * 1.5
times_one_and_half(x) ==
  FloatOf(x[1], RoundMag(MagAdd(Mag(x), MagHalf(Mag(x))), FALSE))

TimesOneAndHalf(x) == OnValue(times_one_and_half, x)

\* x * 2
times_two(x) == FloatOf(x[1], MagDouble(Mag(x)))
TimesTwo(x) == OnValue(times_two, x)

\* float(num) / den, for integers 0 <= num < 64 and 0 < den < 64; also the
\* float a decimal literal num/den stands for
float_div(num, den) ==
  LET a0 == num * 2 ^ (FractionBits - 2 * LimbBits)
      qa == a0 \div den
      ra == a0 % den
      qb == (ra * LimbBase) \div den
      rb == (ra * LimbBase) % den
      qc == (rb * LimbBase) \div den
      rc == (rb * LimbBase) % den
  IN FloatOf(1, RoundMag(<< qa, qb, qc >>, rc # 0))
FloatDiv(num, den) == OnValues(float_div, num, den)

----------------------------------------------------------------------------
(* Text: str.lower, re.sub, difflib.SequenceMatcher *)

UpperCase == << "A","B","C","D","E","F","G","H","I","J","K","L","M",
                "N","O","P","Q","R","S","T","U","V","W","X","Y","Z" >>
LowerCase == << "a","b","c","d","e","f","g","h","i","j","k","l","m",
                "n","o","p","q","r","s","t","u","v","w","x","y","z" >>
Digits == { "0","1","2","3","4","5","6","7","8","9" }

\* str.lower() on one character
LowerOf == [c \in { UpperCase[i] : i \in 1..26 } |->
              LowerCase[CHOOSE i \in 1..26 : UpperCase[i] = c]]
Lower(c) == IF c \in DOMAIN LowerOf THEN LowerOf[c] ELSE c

\* the characters the pattern [^a-z0-9] leaves in place
Alnum == { LowerCase[i] : i \in 1..26 } \cup Digits
IsAlnum(c) == c \in Alnum

\* Python truthiness of an Optional[str]
Truthy(text) == text # None /\ text # << >>

\* re.sub(r"[^a-z0-9]", "", text.lower())
normalize_caretless(text) ==
  IF ~Truthy(text) THEN << >>
  ELSE SelectSeq([i \in 1..Len(text) |-> Lower(text[i])], LAMBDA c : ~IsAlnum(c))

re_sub_lower(text) ==
  IF ~Truthy(text) THEN << >>
  ELSE SelectSeq([i \in 1..Len(text) |-> Lower(text[i])], IsAlnum)

\* SequenceMatcher.find_longest_match on a[alo:ahi], b[blo:bhi] (0-based,
\* half open), no junk: the longest common block, of those the one starting
\* earliest in a, of those the one starting earliest in b; <<alo, blo, 0>>
\* when there is none.
find_longest_match(a, alo, ahi, b, blo, bhi) ==
  OnValue(LAMBDA Blocks :
            IF Blocks = {} THEN << alo, blo, 0 >>
            ELSE CHOOSE blk \in Blocks :
                   \A o \in Blocks :
                     \/ blk[3] > o[3]
                     \/ blk[3] = o[3] /\ blk[1] < o[1]
                     \/ blk[3] = o[3] /\ blk[1] = o[1] /\ blk[2] <= o[2],
          { blk \in (alo..(ahi-1)) \X (blo..(bhi-1)) \X (1..Min(ahi-alo, bhi-blo)) :
              /\ blk[1] + blk[3] <= ahi
              /\ blk[2] + blk[3] <= bhi
              /\ \A d \in 1..blk[3] : a[blk[1] + d] = b[blk[2] + d] })

\* SequenceMatcher.get_matching_blocks: total size of the blocks found by
\* splitting around the longest match and recursing on both sides
RECURSIVE matching_size(_, _, _, _, _, _)
matching_size(a, alo, ahi, b, blo, bhi) ==
  IF alo >= ahi \/ blo >= bhi THEN 0
  ELSE OnValue(LAMBDA m :
                 IF m[3] = 0 THEN 0
                 ELSE m[3] + matching_size(a, alo, m[1], b, blo, m[2])
                           + matching_size(a, m[1] + m[3], ahi, b, m[2] + m[3], bhi),
               find_longest_match(a, alo, ahi, b, blo, bhi))

\* SequenceMatcher.ratio: 2.0 * matches / (len(a) + len(b)), and 1.0 when
\* both are empty
ratio(a, b) ==
  IF Len(a) + Len(b) = 0 THEN FromInt(1)
  ELSE FloatDiv(2 * matching_size(a, 0, Len(a), b, 0, Len(b)), Len(a) + Len(b))

----------------------------------------------------------------------------
(* The texts the inputs are built from *)

T_TShirt == << "T", "-", "S", "h", "i", "r", "t" >>
T_tshirt == << "t", "s", "h", "i", "r", "t" >>
T_pants == << "p", "a", "n", "t", "s" >>
C_White == << "W", "h", "i", "t", "e" >>
C_white == << "w", "h", "i", "t", "e" >>
C_navy == << "n", "a", "v", "y" >>
C_green == << "g", "r", "e", "e", "n" >>
P_Solid == << "S", "o", "l", "i", "d" >>
P_solid == << "s", "o", "l", "i", "d" >>
P_striped == << "s", "t", "r", "i", "p", "e", "d" >>
P_dots == << "d", "o", "t", "s" >>
F_wool == << "w", "o", "o", "l" >>
F_woolblend == << "w", "o", "o", "l", " ", "b", "l", "e", "n", "d" >>
D_WhiteShirt == << "W", "h", "i", "t", "e", " ", "S", "h", "i", "r", "t" >>
D_whiteshirt == << "w", "h", "i", "t", "e", "-", "s", "h", "i", "r", "t", "." >>
D_whiteskirt == << "w", "h", "i", "t", "e", " ", "s", "k", "i", "r", "t" >>
D_whiteshoes == << "w", "h", "i", "t", "e", " ", "s", "h", "o", "e", "s" >>
D_denimjeans == << "d", "e", "n", "i", "m", " ", "j", "e", "a", "n", "s" >>
NoMatchFound == << "N", "o", " ", "m", "a", "t", "c", "h", " ", "f", "o", "u", "n", "d" >>

\* every text of the inputs
InputTexts ==
  { T_TShirt, T_tshirt, T_pants, C_White, C_white, C_navy, C_green,
    P_Solid, P_solid, P_striped, P_dots, F_wool, F_woolblend,
    D_WhiteShirt, D_whiteshirt, D_whiteskirt, D_whiteshoes, D_denimjeans,
    NoMatchFound }

\* re_sub_lower over the input texts, computed once
NormalizeTable == { << t, re_sub_lower(t) >> : t \in InputTexts }

\* a normalize under which None stays None
normalize_absent_kept(text) == IF text = None THEN None ELSE re_sub_lower(text)

\* normalize(text): the value of the regex substitution, looked up for the
\* texts of the inputs and computed for any other
normalize(text) ==
  IF text \in InputTexts
  THEN (CHOOSE e \in NormalizeTable : e[1] = text)[2]
  ELSE re_sub_lower(text)

\* the normalized descriptions that occur in the inputs
KnownTexts ==
  { normalize(d) : d \in { D_WhiteShirt, D_whiteshirt, D_whiteskirt, D_whiteshoes, D_denimjeans } }

\* ratio over the known texts, computed once
RatioTable == { << a, b, ratio(a, b) >> : a \in KnownTexts, b \in KnownTexts }

ratio_of(a, b) ==
  IF a \in KnownTexts /\ b \in KnownTexts
  THEN (CHOOSE e \in RatioTable : e[1] = a /\ e[2] = b)[3]
  ELSE ratio(a, b)

----------------------------------------------------------------------------
(* Python dict access *)

\* d.get(k, default)
Get(d, k, default) == IF k \in d.keys THEN d[k] ELSE default

\* k not in d
lacks_key_never(d, k) == FALSE
lacks_key(d, k) == k \notin d.keys

\* x in y, for str
IsSubstring(x, y) ==
  \E i \in 0..(Len(y) - Len(x)) : SubSeq(y, i + 1, i + Len(x)) = x

----------------------------------------------------------------------------
(* Inputs: the request (app.py OutfitRequest) and the parsed suggestion *)

WardrobeItem(id, type, color, pattern, fabric, description) ==
  [item_id |-> id, type |-> type, color |-> color, pattern |-> pattern,
   fabric |-> fabric, description |-> description]

wA == WardrobeItem("A", T_TShirt, C_White, P_Solid, F_wool, D_WhiteShirt)
wB == WardrobeItem("B", T_tshirt, C_navy, P_striped, None, D_whiteshirt)
wD == WardrobeItem("D", T_tshirt, C_white, P_solid, None, D_whiteskirt)
\* pydantic does not require item_ids to be unique: wE has the id of wA
wE == WardrobeItem("A", T_pants, C_navy, None, None, D_whiteshoes)

WardrobePool == { wA, wB, wD, wE }

\* a wardrobe: up to n records of the pool, in any order
WardrobesUpTo(n) ==
  UNION { { w \in [1..k -> WardrobePool] : \A i, j \in 1..k : i # j => w[i] # w[j] }
          : k \in 0..n }

\* the requests: user_id, occasion, wardrobe
Requests ==
  { << "u1", "networking event", w >> : w \in WardrobesUpTo(MaxWardrobe) }
  \cup { << "u2", "wedding", w >> : w \in WardrobesUpTo(MaxWardrobe - 1) }

\* a suggested clothing item: a dict in which every key is optional
SuggestedItem(keys, type, category, color, pattern, fabric, description) ==
  [keys |-> keys, type |-> type, category |-> category, color |-> color,
   pattern |-> pattern, fabric |-> fabric, description |-> description]

sTop == SuggestedItem({"type", "color", "pattern", "fabric", "description"},
                      T_tshirt, << >>, C_white, P_solid, F_woolblend, D_WhiteShirt)
sPlain == SuggestedItem({"type", "color", "pattern"},
                        T_TShirt, << >>, C_green, P_dots, << >>, << >>)
sPants == SuggestedItem({"type", "color"},
                        T_pants, << >>, C_navy, << >>, << >>, << >>)
sCat == SuggestedItem({"category", "color"},
                      << >>, T_tshirt, C_white, << >>, << >>, << >>)

SlotPool == { sTop, sPlain, sPants, sCat }

\* the name of the outfit at position i
OutfitName(i) == "look" \o ToString(i)

\* The suggestion is held as far as the loops of match_outfit_with_wardrobe
\* have read it: an outfit enters outfit_recommendations when the loop of line
\* 131 reaches it, a clothing item enters its outfit when the loop of line 143
\* reaches it.

\* what parse_suggestion_response may return: {}, a dict without the
\* outfit_recommendations key, or a dict with a list of candidate outfits
EmptySuggestion == [keys |-> {}, outfit_recommendations |-> << >>]
SuggestionShapes ==
  { EmptySuggestion,
    [keys |-> {"summary"}, outfit_recommendations |-> << >>],
    [keys |-> {"outfit_recommendations"}, outfit_recommendations |-> << >>] }

\* the candidate outfit at position i as the loop meets it: with or without
\* clothing_items
OutfitShapes(i) ==
  { [keys |-> ks, outfit_name |-> OutfitName(i), clothing_items |-> << >>] :
      ks \in { {"outfit_name", "clothing_items"}, {"outfit_name"} } }

RECURSIVE ItemsRead(_)
ItemsRead(outfits) ==
  IF outfits = << >> THEN 0
  ELSE Len(Head(outfits).clothing_items) + ItemsRead(Tail(outfits))

Last(seq) == seq[Len(seq)]

----------------------------------------------------------------------------
(* Scoring: outfit_with_wardrobe.py *)

\* the similarity above which an already matched item penalizes a candidate
SimilarityThreshold_lower == FloatDiv(2, 3)
\* (the literal 0.7 of line 106)
SimilarityThreshold == FloatDiv(7, 10)

get_text_similarity(text1, text2) ==
  IF ~Truthy(text1) \/ ~Truthy(text2) THEN FloatZero
  ELSE ratio_of(normalize(text1), normalize(text2))

\* the points of lines 51, 55, 59 and 65
TypePoints == 1
ColorPoints_three == 1 + 2
ColorPoints == 2
PatternPoints_as_commented == 1 + 1
PatternPoints == 4
FabricPoints == 3

\* lines 51-73: the score of a pair whose types agree
fabric_points(mat1, mat2) ==
  IF mat1 # << >> /\ mat2 # << >> /\ (IsSubstring(mat1, mat2) \/ IsSubstring(mat2, mat1))
  THEN FabricPoints ELSE 0

attribute_score(summary_item, wardrobe_item) ==
  LET desc_similarity == get_text_similarity(wardrobe_item.description,
                                             Get(summary_item, "description", << >>))
      score == TypePoints
          + (IF normalize(wardrobe_item.color) = normalize(Get(summary_item, "color", << >>))
             THEN ColorPoints ELSE 0)
          + (IF normalize(wardrobe_item.pattern) = normalize(Get(summary_item, "pattern", << >>))
             THEN PatternPoints ELSE 0)
          + OnValues(fabric_points, normalize(wardrobe_item.fabric),
                     normalize(Get(summary_item, "fabric", << >>)))
  IN FloatAdd(FromInt(score), TimesOneAndHalf(desc_similarity))

\* a mutant of get_match_score: no test of the type
get_match_score_ungated(summary_item, wardrobe_item) ==
  attribute_score(summary_item, wardrobe_item)

get_match_score(summary_item, wardrobe_item) ==
  LET summary_type == Get(summary_item, "type", Get(summary_item, "category", << >>))
  IN IF normalize(wardrobe_item.type) # normalize(summary_type) THEN FromInt(-1)
     ELSE attribute_score(summary_item, wardrobe_item)

\* lines 97-107: the score of a candidate after the penalties for the items
\* already matched in this outfit
RECURSIVE penalized(_, _, _, _)
penalized(score, item, matching_set_items, k) ==
  IF k > Len(matching_set_items) THEN score
  ELSE penalized(OnValue(LAMBDA desc_similarity :
                           IF FloatLess(SimilarityThreshold, desc_similarity)
                           THEN FloatSub(score, TimesTwo(desc_similarity))
                           ELSE score,
                         get_text_similarity(item.description,
                                             matching_set_items[k].description)),
                 item, matching_set_items, k + 1)

\* get_match_score over the pools, computed once
ScoreTable ==
  { << s, w, get_match_score(s, w) >> : s \in SlotPool, w \in WardrobePool }

match_score_of(suggested_item, item) ==
  IF suggested_item \in SlotPool /\ item \in WardrobePool
  THEN (CHOOSE e \in ScoreTable : e[1] = suggested_item /\ e[2] = item)[3]
  ELSE get_match_score(suggested_item, item)

adjusted_score(suggested_item, item, matching_set_items) ==
  OnValue(LAMBDA score :
            IF matching_set_items # << >> /\ FloatLess(FloatZero, score)
            THEN penalized(score, item, matching_set_items, 1)
            ELSE score,
          match_score_of(suggested_item, item))

\* the value highest_score starts from (line 84)
InitialHighestScore_unbounded == FromInt(-60)
InitialHighestScore == FromInt(-1)

\* line 109: score > highest_score
is_higher_or_equal(score, highest) == ~FloatLess(score, highest)
is_higher(score, highest) == FloatLess(highest, score)

\* lines 86-111: the loop over the wardrobe from position i on; best is the
\* position of best_item (0 for None)
RECURSIVE scan_wardrobe(_, _, _, _, _, _, _)
scan_wardrobe(suggested_item, wardrobe_items, used_items, matching_set_items, i, best, highest) ==
  IF i > Len(wardrobe_items) THEN [kind |-> "ok", best |-> best, score |-> highest]
  ELSE LET item == wardrobe_items[i]
       IN IF item.item_id \in used_items
          THEN scan_wardrobe(suggested_item, wardrobe_items, used_items,
                             matching_set_items, i + 1, best, highest)
          ELSE IF "type" \notin suggested_item.keys
          THEN [kind |-> "KeyError", best |-> 0, score |-> FloatZero]
          ELSE IF normalize(item.type) # normalize(suggested_item.type)
          THEN scan_wardrobe(suggested_item, wardrobe_items, used_items,
                             matching_set_items, i + 1, best, highest)
          ELSE OnValue(LAMBDA score :
                         IF is_higher(score, highest)
                         THEN scan_wardrobe(suggested_item, wardrobe_items, used_items,
                                            matching_set_items, i + 1, i, score)
                         ELSE scan_wardrobe(suggested_item, wardrobe_items, used_items,
                                            matching_set_items, i + 1, best, highest),
                       adjusted_score(suggested_item, item, matching_set_items))

\* a mutant of find_best_match: suggested_item["type"] is read before the loop
find_best_match_eager(suggested_item, wardrobe_items, used_items, matching_set_items) ==
  IF "type" \notin suggested_item.keys
  THEN [kind |-> "KeyError", best |-> 0, score |-> FloatZero]
  ELSE scan_wardrobe(suggested_item, wardrobe_items, used_items, matching_set_items,
                     1, 0, InitialHighestScore)

find_best_match(suggested_item, wardrobe_items, used_items, matching_set_items) ==
  scan_wardrobe(suggested_item, wardrobe_items, used_items, matching_set_items,
                1, 0, InitialHighestScore)

----------------------------------------------------------------------------
(* State *)

VARIABLES
  pc,                     \* the step the request is at
  user_id, occasion,      \* request_data.user_id, request_data.occasion
  wardrobe,               \* request_data.wardrobe
  outfit_suggestion,      \* outfit_service.py: the parsed suggestion
  outfit_matches,         \* match_outfit_with_wardrobe: local list of results
  used_items,             \* match_outfit_with_wardrobe: local set of item_ids
  matched_items,          \* per outfit: the MatchResults so far
  matched_items_objects,  \* per outfit: the wardrobe items matched so far
  total_score,            \* per outfit: the running total
  match_result,           \* outfit_service.py: what match_outfit_with_wardrobe returned
  recommendation,         \* outfit_service.py: the recommendation returned
  exc,                    \* the exception in flight
  response,               \* what POST /analyze answers
  call,                   \* a call of one function on its own: arguments, result
  frames,                 \* several invocations at once: the locals of each
  used_cells              \* several invocations at once: the used_items sets

vars == << pc, user_id, occasion, wardrobe, outfit_suggestion, outfit_matches,
           used_items, matched_items, matched_items_objects, total_score,
           match_result, recommendation, exc, response, call, frames, used_cells >>

\* what serving one request leaves alone
aside == << call, frames, used_cells >>

request_vars == << user_id, occasion, wardrobe >>
match_locals == << outfit_matches, used_items, matched_items,
                   matched_items_objects, total_score >>

----------------------------------------------------------------------------
(* Exceptions: src/exceptions/http_exceptions.py and the built-in ones *)

NoException == [type |-> "none", status_code |-> 0, error |-> ""]
BadRequestError(error) == [type |-> "BadRequestError", status_code |-> 400, error |-> error]
ServerError(error) == [type |-> "ServerError", status_code |-> 500, error |-> error]
BuiltinError(type) == [type |-> type, status_code |-> 0, error |-> ""]

\* isinstance(e, HTTPError)
IsHTTPError(e) == e.type \in { "BadRequestError", "NotFoundError", "ValidationError", "ServerError" }

----------------------------------------------------------------------------
(* Values of match_outfit_with_wardrobe and generate_outfit_recommendation *)

NoResult == [kind |-> "none", error |-> "", list |-> << >>]
ErrorDict(message) == [kind |-> "dict", error |-> message, list |-> << >>]
MatchList_matched_only(list) ==
  [kind |-> "list", error |-> "",
   list |-> SelectSeq(list, LAMBDA o : \E n \in 1..Len(o.matched_items) :
                                         o.matched_items[n].item_id # NoneId)]
MatchList(list) == [kind |-> "list", error |-> "", list |-> list]

\* no function is called on its own
NoCall == [fn |-> "none"]

NoRecommendation == [kind |-> "none", user_id |-> "", occasion |-> "", outfit |-> << >>]

\* the "suggestion" entry of a MatchResult (lines 160-166, 179-185)
SuggestionOf(item) ==
  [type |-> Get(item, "type", << >>),
   description |-> Get(item, "description", << >>),
   color |-> Get(item, "color", << >>),
   fabric |-> Get(item, "fabric", << >>),
   pattern |-> Get(item, "pattern", << >>)]

\* lines 152-168
MatchedEntry(best_match, score, item) ==
  [item_id |-> best_match.item_id,
   description |-> best_match.description,
   type |-> best_match.type,
   color |-> best_match.color,
   fabric |-> best_match.fabric,
   score |-> score,
   suggestion |-> SuggestionOf(item)]

\* lines 173-187; the entry has no color and no fabric
SentinelScore == FromInt(-1)
SentinelEntry(item) ==
  [item_id |-> NoneId,
   description |-> NoMatchFound,
   type |-> Get(item, "type", << >>),
   color |-> << >>,
   fabric |-> << >>,
   score |-> SentinelScore,
   suggestion |-> SuggestionOf(item)]

----------------------------------------------------------------------------
(* Init: POST /analyze has received a request *)

Init ==
  /\ pc = "search"
  /\ \E r \in Requests : user_id = r[1] /\ occasion = r[2] /\ wardrobe = r[3]
  /\ outfit_suggestion = EmptySuggestion
  /\ outfit_matches = << >>
  /\ used_items = {}
  /\ matched_items = << >>
  /\ matched_items_objects = << >>
  /\ total_score = FloatZero
  /\ match_result = NoResult
  /\ recommendation = NoRecommendation
  /\ exc = NoException
  /\ response = [status_code |-> 0, error |-> ""]
  /\ call = NoCall
  /\ frames = << >>
  /\ used_cells = << >>

\* an exception that is logged and not raised: the next step runs
Raise_and_go_on(e) ==
  /\ exc' = e
  /\ pc' = IF pc = "search" THEN "suggest" ELSE IF pc = "suggest" THEN "match" ELSE "respond"

\* an exception leaves generate_outfit_recommendation (lines 109-111 log it
\* and raise it again)
Raise(e) ==
  /\ exc' = e
  /\ pc' = "respond"

----------------------------------------------------------------------------
(* generate_outfit_recommendation, steps 1 and 2 (outfit_service.py 57-86) *)

\* Step 1: the search finds references, finds none (line 64), or one of its
\* calls raises (ai_search.py)
SearchOutcomes == { "results", "empty", "BadRequestError", "ServerError" }

Search ==
  /\ pc = "search"
  /\ \E o \in SearchOutcomes :
       CASE o = "results" -> pc' = "suggest" /\ exc' = exc
         [] o = "empty" -> Raise(BadRequestError("search_results"))
         [] o = "BadRequestError" -> Raise(BadRequestError("query_generation"))
         [] o = "ServerError" -> Raise(ServerError("search_execution"))
  /\ UNCHANGED << aside, request_vars, outfit_suggestion, match_locals, match_result,
                  recommendation, response >>

\* Step 2: the suggestion is generated and parsed; an empty one is refused
\* (line 80); generation or parsing may raise (outfit_suggestions.py)
SuggestOutcomes == { "parsed", "BadRequestError", "ServerError" }

Suggest ==
  /\ pc = "suggest"
  /\ \E o \in SuggestOutcomes :
       CASE o = "parsed" ->
              \E s \in SuggestionShapes :
                /\ outfit_suggestion' = s
                /\ IF s.keys = {}
                   THEN Raise(BadRequestError("outfit_suggestion"))
                   ELSE pc' = "match" /\ exc' = exc
         [] o = "BadRequestError" ->
              Raise(BadRequestError("json_parsing")) /\ UNCHANGED outfit_suggestion
         [] o = "ServerError" ->
              Raise(ServerError("outfit_generation")) /\ UNCHANGED outfit_suggestion
  /\ UNCHANGED << aside, request_vars, match_locals, match_result, recommendation, response >>

----------------------------------------------------------------------------
(* match_outfit_with_wardrobe (outfit_with_wardrobe.py 116-200) *)

\* what the call returns to line 90 of outfit_service.py
Return(value) ==
  /\ match_result' = value
  /\ pc' = "select"

\* line 170
mark_used_skip(used, item_id) == used
mark_used(used, item_id) == used \cup { item_id }

\* lines 171 and 172-187: what one slot adds to the outfit's total_score
add_to_total(total, matched, score) == IF matched THEN FloatAdd(total, score) ELSE total

\* lines 122-128: the locals are set up and the shape of the suggestion is checked
MatchEnter ==
  /\ pc = "match"
  /\ outfit_matches' = << >>
  /\ used_items' = {}
  /\ IF lacks_key(outfit_suggestion, "outfit_recommendations")
     THEN Return(ErrorDict("Invalid outfit suggestion format"))
     ELSE pc' = "outfit" /\ match_result' = match_result
  /\ UNCHANGED << aside, request_vars, outfit_suggestion, matched_items, matched_items_objects,
                  total_score, recommendation, exc, response >>

\* lines 131-141: the loop reaches the next candidate outfit
NextOutfit ==
  /\ pc = "outfit"
  /\ Len(outfit_suggestion.outfit_recommendations) < MaxOutfits
  /\ \E outfit \in OutfitShapes(Len(outfit_suggestion.outfit_recommendations) + 1) :
       /\ outfit_suggestion' =
            [outfit_suggestion EXCEPT !.outfit_recommendations = Append(@, outfit)]
       /\ IF lacks_key(outfit, "clothing_items")
          THEN /\ Return(ErrorDict("No clothing items in outfit suggestion"))
               /\ UNCHANGED << matched_items, matched_items_objects, total_score >>
          ELSE /\ matched_items' = << >>
               /\ matched_items_objects' = << >>
               /\ total_score' = FloatZero
               /\ pc' = "slot"
               /\ match_result' = match_result
  /\ UNCHANGED << aside, request_vars, outfit_matches, used_items, recommendation, exc, response >>

\* lines 149-170: what a slot leaves of the wardrobe list.  best_match is
\* appended to matched_items_objects and its item_id added to used_items;
\* the list and its items are only read (best is the position matched, 0 for
\* None)
wardrobe_after_pop(wardrobe_items, best) ==
  IF best = 0 THEN wardrobe_items
  ELSE SubSeq(wardrobe_items, 1, best - 1) \o SubSeq(wardrobe_items, best + 1, Len(wardrobe_items))
wardrobe_after(wardrobe_items, best) == wardrobe_items

\* lines 143-187: the loop reaches the next clothing item of the outfit, which
\* is matched
MatchSlot ==
  /\ pc = "slot"
  /\ ItemsRead(outfit_suggestion.outfit_recommendations) < MaxItems
  /\ \E item \in SlotPool :
     \E found \in { find_best_match(item, wardrobe, used_items, matched_items_objects) } :
       LET oi == Len(outfit_suggestion.outfit_recommendations)
       IN /\ outfit_suggestion' =
               [outfit_suggestion EXCEPT !.outfit_recommendations[oi].clothing_items =
                                            Append(@, item)]
          /\ IF found.kind = "KeyError"
             THEN /\ Raise(BuiltinError("KeyError"))
                  /\ UNCHANGED << matched_items, matched_items_objects, used_items,
                                  total_score >>
             ELSE /\ IF found.best # 0
                     THEN LET best_match == wardrobe[found.best]
                          IN /\ matched_items' = Append(matched_items,
                                                   MatchedEntry(best_match, found.score, item))
                             /\ matched_items_objects' = Append(matched_items_objects, best_match)
                             /\ used_items' = mark_used(used_items, best_match.item_id)
                     ELSE /\ matched_items' = Append(matched_items, SentinelEntry(item))
                          /\ UNCHANGED << matched_items_objects, used_items >>
                  /\ total_score' = add_to_total(total_score, found.best # 0, found.score)
                  /\ UNCHANGED << pc, exc >>
          /\ wardrobe' = wardrobe_after(wardrobe, found.best)
  /\ UNCHANGED << aside, user_id, occasion, outfit_matches, match_result, recommendation,
                  response >>

\* lines 189-199: the outfit has no further clothing item; its result is appended
AppendOutfit ==
  /\ pc = "slot"
  /\ outfit_matches' = Append(outfit_matches,
                              [outfit_name |-> Last(outfit_suggestion.outfit_recommendations).outfit_name,
                               total_score |-> total_score,
                               matched_items |-> matched_items])
  /\ pc' = "outfit"
  /\ UNCHANGED << aside, request_vars, outfit_suggestion, used_items, matched_items,
                  matched_items_objects, total_score, match_result,
                  recommendation, exc, response >>

\* line 200: the suggestion has no further outfit
ReturnMatches ==
  /\ pc = "outfit"
  /\ Return(MatchList(outfit_matches))
  /\ UNCHANGED << aside, request_vars, outfit_suggestion, match_locals, recommendation,
                  exc, response >>

----------------------------------------------------------------------------
(* generate_outfit_recommendation, selection (outfit_service.py 92-107) *)

\* max(outfit_matches, key=total_score) on a non-empty list: the position of
\* the first element no other exceeds
min_total_score(list) ==
  CHOOSE i \in 1..Len(list) :
    /\ \A j \in 1..Len(list) : ~FloatLess(list[j].total_score, list[i].total_score)
    /\ \A j \in 1..(i-1) : FloatLess(list[i].total_score, list[j].total_score)

max_total_score_last(list) ==
  CHOOSE i \in 1..Len(list) :
    /\ \A j \in 1..Len(list) : ~FloatLess(list[i].total_score, list[j].total_score)
    /\ \A j \in (i+1)..Len(list) : FloatLess(list[j].total_score, list[i].total_score)

\* line 93: max(outfit_matches, key=lambda x: x["total_score"]), the first of
\* the elements with the greatest key
max_total_score(list) ==
  CHOOSE i \in 1..Len(list) :
    /\ \A j \in 1..Len(list) : ~FloatLess(list[i].total_score, list[j].total_score)
    /\ \A j \in 1..(i-1) : FloatLess(list[j].total_score, list[i].total_score)

\* lines 95-97
item_ids_of(matched) == { matched[k].item_id : k \in 1..Len(matched) }

\* line 99
items_with_ids_all(wardrobe_items, best_item_ids) == wardrobe_items
items_with_ids_backwards(wardrobe_items, best_item_ids) ==
  SelectSeq([i \in 1..Len(wardrobe_items) |-> wardrobe_items[Len(wardrobe_items) + 1 - i]],
            LAMBDA item : item.item_id \in best_item_ids)
items_with_ids(wardrobe_items, best_item_ids) ==
  SelectSeq(wardrobe_items, LAMBDA item : item.item_id \in best_item_ids)

\* lines 101-105
make_recommendation(uid, occ, best_items) ==
  [kind |-> "recommendation", user_id |-> uid, occasion |-> occ, outfit |-> best_items]

Select ==
  /\ pc = "select"
  /\ CASE match_result.kind = "dict" ->
            \* max() walks the keys of the error dict; "error"["total_score"]
            Raise(BuiltinError("TypeError")) /\ UNCHANGED recommendation
       [] match_result.kind = "list" /\ match_result.list = << >> ->
            \* max() of an empty sequence
            Raise(BuiltinError("ValueError")) /\ UNCHANGED recommendation
       [] OTHER ->
            LET highest_score_outfit == match_result.list[max_total_score(match_result.list)]
                best_item_ids == item_ids_of(highest_score_outfit.matched_items)
                best_items == items_with_ids(wardrobe, best_item_ids)
            IN /\ recommendation' = make_recommendation(user_id, occasion, best_items)
               /\ pc' = "respond"
               /\ exc' = exc
  /\ UNCHANGED << aside, request_vars, outfit_suggestion, match_locals, match_result, response >>

----------------------------------------------------------------------------
(* recommend_outfit (app.py 111-141) and the exception handler (56-59) *)

\* lines 132-141: an HTTPError passes, anything else becomes a ServerError
to_http_error(e) == IF IsHTTPError(e) THEN e ELSE ServerError("recommend_outfit")

Respond ==
  /\ pc = "respond"
  /\ IF exc.type = "none"
     THEN response' = [status_code |-> 200, error |-> ""]
     ELSE LET e == to_http_error(exc)
          IN response' = [status_code |-> e.status_code, error |-> e.error]
  /\ pc' = "done"
  /\ UNCHANGED << aside, request_vars, outfit_suggestion, match_locals, match_result,
                  recommendation, exc >>

----------------------------------------------------------------------------

Next ==
  \/ Search
  \/ Suggest
  \/ MatchEnter
  \/ NextOutfit
  \/ MatchSlot
  \/ AppendOutfit
  \/ ReturnMatches
  \/ Select
  \/ Respond

Spec == Init /\ [][Next]_vars

----------------------------------------------------------------------------
(* Vocabulary of the properties *)

Recs == outfit_suggestion.outfit_recommendations

UniqueIds(w) == \A i, j \in 1..Len(w) : i # j => w[i].item_id # w[j].item_id

IsMatched(entry) == entry.item_id # NoneId

\* the item_ids matched in a list of MatchResults
MatchedIds(entries) ==
  { entries[k].item_id : k \in { n \in 1..Len(entries) : IsMatched(entries[n]) } }

RECURSIVE SumScores(_)
SumScores(entries) ==
  IF entries = << >> THEN FloatZero
  ELSE FloatAdd(SumScores(SubSeq(entries, 1, Len(entries) - 1)), Last(entries).score)

\* the call of match_outfit_with_wardrobe has returned
Returned == pc \in { "select", "respond", "done" } /\ match_result.kind # "none"

\* the suggestion the engine was given lacks outfit_recommendations, or one of
\* its outfits lacks clothing_items
Malformed ==
  \/ "outfit_recommendations" \notin outfit_suggestion.keys
  \/ \E k \in 1..Len(Recs) : "clothing_items" \notin Recs[k].keys

\* The pool's types fall into two garment types under lowercasing and
\* stripping of punctuation
GarmentTypes == { { T_TShirt, T_tshirt }, { T_pants } }
SameGarmentType(a, b) == \E g \in GarmentTypes : a \in g /\ b \in g

\* Lines 139-187 for one outfit on its own, started with the used-items set
\* used: the MatchResults and the total the loop over items leaves
RECURSIVE AssignFrom(_, _, _, _, _, _)
AssignFrom(items, i, used, matched, objects, total) ==
  IF i > Len(items) THEN [kind |-> "ok", matched_items |-> matched, total_score |-> total]
  ELSE LET found == find_best_match(items[i], wardrobe, used, objects)
       IN IF found.kind = "KeyError"
          THEN [kind |-> "KeyError", matched_items |-> matched, total_score |-> total]
          ELSE IF found.best # 0
          THEN AssignFrom(items, i + 1, mark_used(used, wardrobe[found.best].item_id),
                          Append(matched, MatchedEntry(wardrobe[found.best], found.score, items[i])),
                          Append(objects, wardrobe[found.best]),
                          add_to_total(total, TRUE, found.score))
          ELSE AssignFrom(items, i + 1, used,
                          Append(matched, SentinelEntry(items[i])),
                          objects,
                          add_to_total(total, FALSE, found.score))

MatchAlone(outfit, used) ==
  AssignFrom(outfit.clothing_items, 1, used, << >>, << >>, FloatZero)

\* outfit k's result is what matching outfit k alone from the set used gives
SameAsAlone(k, used) ==
  LET alone == MatchAlone(Recs[k], used)
  IN /\ alone.kind = "ok"
     /\ outfit_matches[k].matched_items = alone.matched_items
     /\ outfit_matches[k].total_score = alone.total_score

\* the item_ids matched in the outfits before outfit k
UsedBefore(k) == UNION { MatchedIds(outfit_matches[j].matched_items) : j \in 1..(k-1) }

----------------------------------------------------------------------------
(* C1: in every OutfitMatchResult that match_outfit_with_wardrobe returns,   *)
(* for a wardrobe with unique item_ids, no wardrobe item_id is the item_id   *)
(* of more than one matched MatchResult of that outfit.                      *)

NoIdTwice(entries) ==
  \A a, b \in 1..Len(entries) :
    (a # b /\ IsMatched(entries[a]) /\ IsMatched(entries[b]))
      => entries[a].item_id # entries[b].item_id

C1_UniqueWithinOutfit ==
  (match_result.kind = "list" /\ UniqueIds(wardrobe))
    => \A k \in 1..Len(match_result.list) : NoIdTwice(match_result.list[k].matched_items)

\* two slots asking for the same thing were matched, to different items
C1_Witness ==
  /\ match_result.kind = "list"
  /\ UniqueIds(wardrobe)
  /\ \E k \in 1..Len(match_result.list) :
       LET entries == match_result.list[k].matched_items
       IN /\ Len(entries) = 2
          /\ IsMatched(entries[1]) /\ IsMatched(entries[2])
          /\ entries[1].suggestion = entries[2].suggestion
          /\ entries[1].item_id # entries[2].item_id

----------------------------------------------------------------------------
(* C2 as stated: every candidate outfit is assigned with a fresh used-items  *)
(* set, so its OutfitMatchResult is the result of matching that outfit alone *)
(* against the same wardrobe.                                                *)

----------------------------------------------------------------------------
(* C3: for every candidate outfit, total_score is the sum of the scores of   *)
(* all its MatchResults, an unmatched (sentinel) slot contributing -1.       *)

C3_TotalIsSumOfAllScores ==
  \A k \in 1..Len(outfit_matches) :
    outfit_matches[k].total_score = SumScores(outfit_matches[k].matched_items)

----------------------------------------------------------------------------
(* C4 as stated: a slot is recorded as "no match" if and only if no          *)
(* not-yet-used wardrobe item of the same normalized type exists at that     *)
(* point; whenever one exists, the best candidate is accepted whatever its   *)
(* penalty-adjusted score, also at or below -1.                              *)

\* a step of MatchSlot that records a MatchResult
RecordsSlot == pc = "slot" /\ Len(matched_items') = Len(matched_items) + 1

\* type, or category when there is no type
SummaryType(item) == Get(item, "type", Get(item, "category", << >>))

\* the positions of the wardrobe items a slot may still take
UnusedSameType(item) ==
  { i \in 1..Len(wardrobe) :
      /\ wardrobe[i].item_id \notin used_items
      /\ normalize(wardrobe[i].type) = normalize(SummaryType(item)) }

----------------------------------------------------------------------------
(* C5: when one candidate outfit has a total_score strictly higher than      *)
(* every other, the recommendation is built from that outfit's matched items *)
(* and from no other outfit's.                                               *)

StrictlyHighest(list, k) ==
  \A j \in 1..Len(list) : j # k => FloatLess(list[j].total_score, list[k].total_score)

RecommendedIds == { recommendation.outfit[n].item_id : n \in 1..Len(recommendation.outfit) }

C5_HighestTotalSelected ==
  recommendation.kind = "recommendation" =>
    \A k \in 1..Len(match_result.list) :
      StrictlyHighest(match_result.list, k) =>
        /\ RecommendedIds = MatchedIds(match_result.list[k].matched_items)
        /\ \A j \in 1..Len(match_result.list) :
             j # k => RecommendedIds \cap MatchedIds(match_result.list[j].matched_items) = {}

\* the second of two outfits wins, and both matched something
C5_Witness ==
  /\ recommendation.kind = "recommendation"
  /\ Len(match_result.list) = 2
  /\ StrictlyHighest(match_result.list, 2)
  /\ MatchedIds(match_result.list[1].matched_items) # {}
  /\ MatchedIds(match_result.list[2].matched_items) # {}

----------------------------------------------------------------------------
(* C6: for a wardrobe with unique item_ids, the recommendation's outfit list *)
(* holds exactly the wardrobe items whose item_id is a matched id of the     *)
(* winning OutfitMatchResult, each as the wardrobe has it, and user_id and   *)
(* occasion are those of the request.                                        *)

----------------------------------------------------------------------------
(* C7: when the suggestion has no outfit_recommendations key, or a candidate *)
(* outfit lacks clothing_items, the engine ends with an error outcome and    *)
(* produces no outfit match results and no recommendation, also when earlier *)
(* outfits were well formed.                                                 *)

C7_MalformedFails ==
  Malformed =>
    /\ match_result.kind # "list"
    /\ Returned => match_result.kind = "dict"
    /\ recommendation.kind = "none"
    /\ pc = "done" => response.status_code # 200

\* the second outfit lacks clothing_items, the first one was matched
C7_Witness ==
  /\ pc = "done"
  /\ Len(Recs) = 2
  /\ "clothing_items" \in Recs[1].keys
  /\ Len(outfit_matches) = 1
  /\ MatchedIds(outfit_matches[1].matched_items) # {}
  /\ "clothing_items" \notin Recs[2].keys
  /\ match_result.kind = "dict"

----------------------------------------------------------------------------
(* C8: POST /analyze reports a malformed suggestion (no                      *)
(* outfit_recommendations, or an outfit without clothing_items) to the       *)
(* client as a bad request (a 4xx status), not as an internal server error.  *)

C8_MalformedIsBadRequest ==
  (pc = "done" /\ match_result.kind = "dict") => response.status_code \in 400..499

----------------------------------------------------------------------------
(* C9: when outfit_recommendations is an empty list, selection fails with    *)
(* the dedicated NoCandidateOutfits error, not with a generic one.           *)

C9_NoCandidateOutfits ==
  (pc \in { "respond", "done" } /\ match_result.kind = "list" /\ match_result.list = << >>)
    => exc.type = "NoCandidateOutfits"

----------------------------------------------------------------------------
(* C10: in every matched MatchResult the wardrobe item's normalized type is  *)
(* the suggested item's normalized type; an item of another type is never    *)
(* selected.                                                                 *)

\* all MatchResults recorded so far
RecordedEntries ==
  { matched_items[n] : n \in 1..Len(matched_items) }
  \cup UNION { { outfit_matches[k].matched_items[n] :
                   n \in 1..Len(outfit_matches[k].matched_items) } : k \in 1..Len(outfit_matches) }

C10_MatchedTypeEqual ==
  \A e \in RecordedEntries :
    IsMatched(e) => /\ normalize(e.type) = normalize(e.suggestion.type)
                    /\ SameGarmentType(e.type, e.suggestion.type)

\* the types match only once normalized, and the wardrobe holds an item of
\* another garment type too
C10_Witness ==
  \E e \in RecordedEntries :
    /\ IsMatched(e)
    /\ e.type # e.suggestion.type
    /\ \E i \in 1..Len(wardrobe) : ~SameGarmentType(wardrobe[i].type, e.type)

----------------------------------------------------------------------------
(* get_match_score on its own: one call on one pair of the pools *)

\* a key the dict does not have
Absent == << "<absent>" >>
ValueOr(v, default) == IF v = Absent THEN default ELSE v

\* the dict with the keys that are given a value
DictItem(type, category, color, pattern, fabric, description) ==
  LET given == [type |-> type, category |-> category, color |-> color,
                pattern |-> pattern, fabric |-> fabric, description |-> description]
  IN SuggestedItem({ k \in DOMAIN given : given[k] # Absent },
                   ValueOr(type, << >>), ValueOr(category, << >>), ValueOr(color, << >>),
                   ValueOr(pattern, << >>), ValueOr(fabric, << >>),
                   ValueOr(description, << >>))

ScoreSummaryItems ==
  { DictItem(tc[1], tc[2], c, p, f, d) :
      tc \in { << T_tshirt, Absent >>, << T_pants, Absent >>, << Absent, T_tshirt >>,
               << T_pants, T_tshirt >>, << Absent, Absent >> },
      c \in { Absent, C_white, C_green },
      p \in { Absent, P_solid, P_dots },
      f \in { Absent, F_woolblend },
      d \in { Absent, D_whiteskirt, D_denimjeans, D_WhiteShirt } }

ScoreWardrobeItems ==
  { WardrobeItem("A", t, c, p, f, d) :
      t \in { T_TShirt, T_pants },
      c \in { C_White, C_navy, None },
      p \in { P_Solid, None },
      f \in { F_wool, None },
      d \in { D_WhiteShirt, D_whiteshoes, None } }

\* no request is being served
NoRequest ==
  /\ pc = "idle"
  /\ user_id = "" /\ occasion = "" /\ wardrobe = << >>
  /\ outfit_suggestion = EmptySuggestion
  /\ outfit_matches = << >>
  /\ used_items = {}
  /\ matched_items = << >>
  /\ matched_items_objects = << >>
  /\ total_score = FloatZero
  /\ match_result = NoResult
  /\ recommendation = NoRecommendation
  /\ exc = NoException
  /\ response = [status_code |-> 0, error |-> ""]

request_state == << pc, user_id, occasion, wardrobe, outfit_suggestion, outfit_matches,
                    used_items, matched_items, matched_items_objects, total_score,
                    match_result, recommendation, exc, response >>

ScoreInit ==
  /\ NoRequest
  /\ \E s \in ScoreSummaryItems, w \in ScoreWardrobeItems :
       call = [fn |-> "get_match_score", summary_item |-> s, wardrobe_item |-> w,
               returned |-> FALSE, score |-> FloatZero]
  /\ frames = << >>
  /\ used_cells = << >>

GetMatchScore ==
  /\ call.fn = "get_match_score"
  /\ ~call.returned
  /\ call' = [call EXCEPT !.returned = TRUE,
                          !.score = get_match_score(call.summary_item, call.wardrobe_item)]
  /\ UNCHANGED << request_state, frames, used_cells >>

ScoreNext == GetMatchScore

ScoreSpec == ScoreInit /\ [][ScoreNext]_vars

\* get_match_score has returned
Scored == call.fn = "get_match_score" /\ call.returned

\* the type the claims speak of: the type, or the category when there is no type
SuggestedType(item) ==
  IF "type" \in item.keys THEN item.type
  ELSE IF "category" \in item.keys THEN item.category
  ELSE << >>

TypesAgree(summary_item, wardrobe_item) ==
  normalize(wardrobe_item.type) = normalize(SuggestedType(summary_item))

\* the two texts are the same once normalized
SameText(a, b) == normalize(a) = normalize(b)

----------------------------------------------------------------------------
(* C11: get_match_score returns exactly -1 for every pair whose normalized   *)
(* types differ, however well color, pattern, fabric and description agree.  *)

C11_TypeGate ==
  (Scored /\ ~TypesAgree(call.summary_item, call.wardrobe_item))
    => call.score = FromInt(-1)

\* the types differ and every other attribute agrees
C11_Witness ==
  /\ Scored
  /\ ~SameGarmentType(call.wardrobe_item.type, SuggestedType(call.summary_item))
  /\ SuggestedType(call.summary_item) # << >>
  /\ SameText(call.wardrobe_item.color, call.summary_item.color)
  /\ SameText(call.wardrobe_item.pattern, call.summary_item.pattern)
  /\ call.wardrobe_item.fabric = F_wool /\ call.summary_item.fabric = F_woolblend
  /\ call.wardrobe_item.description = call.summary_item.description
  /\ call.wardrobe_item.description = D_WhiteShirt
  /\ "color" \in call.summary_item.keys /\ "pattern" \in call.summary_item.keys

-----------------------------------------------------------------------------
(* C12: a suggested item that has no type field but has a category field is  *)
(* treated throughout matching as having that category as its type: the      *)
(* assignment completes without an error and every wardrobe item matched to  *)
(* such an item has a normalized type equal to the normalized category.      *)
(* get_match_score reads summary.get("type", summary.get("category", ""))    *)
(* (line 46); find_best_match reads suggested_item["type"] (line 90) for     *)
(* each unused wardrobe item, which raises KeyError for such an item.        *)

\* the suggested item has a category and no type
CategoryOnly(item) == "type" \notin item.keys /\ "category" \in item.keys

\* every outfit read so far has clothing_items, and every item read so far
\* has a type or a category
TypedOrCategorized ==
  /\ ~Malformed
  /\ \A k \in 1..Len(Recs) : \A n \in 1..Len(Recs[k].clothing_items) :
       LET item == Recs[k].clothing_items[n]
       IN "type" \in item.keys \/ CategoryOnly(item)

C12_CategoryActsAsType ==
  /\ TypedOrCategorized => exc.type # "KeyError"
  /\ \A k \in 1..Len(outfit_matches) : \A n \in 1..Len(outfit_matches[k].matched_items) :
       LET item == Recs[k].clothing_items[n]
           entry == outfit_matches[k].matched_items[n]
       IN (CategoryOnly(item) /\ IsMatched(entry))
            => normalize(entry.type) = normalize(item.category)

-----------------------------------------------------------------------------
(* C13: when several candidate outfits share the maximum total_score, the    *)
(* one that comes first in the order of outfit_recommendations is selected:  *)
(* the Recommendation holds the wardrobe items of that outfit's matches.     *)

\* no outfit of the list has a greater total_score than outfit k
HasMaximumTotal(list, k) ==
  \A j \in 1..Len(list) : ~FloatLess(list[k].total_score, list[j].total_score)

\* the wardrobe items an outfit's selection would resolve to
ResolvedItems(outfit) == items_with_ids(wardrobe, item_ids_of(outfit.matched_items))

C13_FirstOfTiedSelected ==
  recommendation.kind = "recommendation" =>
    \A k \in 1..Len(match_result.list) :
      (/\ HasMaximumTotal(match_result.list, k)
       /\ \A j \in 1..(k-1) : ~HasMaximumTotal(match_result.list, j))
        => recommendation.outfit = ResolvedItems(match_result.list[k])

\* two outfits tie at the maximum and resolve to different wardrobe items
C13_Witness ==
  /\ recommendation.kind = "recommendation"
  /\ Len(match_result.list) = 2
  /\ match_result.list[1].total_score = match_result.list[2].total_score
  /\ ResolvedItems(match_result.list[1]) # ResolvedItems(match_result.list[2])
  /\ recommendation.outfit = ResolvedItems(match_result.list[1])

-----------------------------------------------------------------------------
(* C14: for every pair whose types agree, get_match_score is                 *)
(*   1 + 2*[normalized colors equal] + 4*[normalized patterns equal]         *)
(*     + 3*[both normalized fabrics non-empty, one a substring of the other] *)
(*     + 1.5 * similarity(wardrobe description, suggested description);      *)
(* a pair agreeing on type, color and pattern with no fabric and no          *)
(* description scores exactly 7.                                             *)

Indicator(b) == IF b THEN 1 ELSE 0

ColorsAgree(summary_item, wardrobe_item) ==
  SameText(wardrobe_item.color, Get(summary_item, "color", << >>))

PatternsAgree(summary_item, wardrobe_item) ==
  SameText(wardrobe_item.pattern, Get(summary_item, "pattern", << >>))

FabricsAgree(summary_item, wardrobe_item) ==
  LET f1 == normalize(wardrobe_item.fabric)
      f2 == normalize(Get(summary_item, "fabric", << >>))
  IN f1 # << >> /\ f2 # << >> /\ (IsSubstring(f1, f2) \/ IsSubstring(f2, f1))

DescriptionSimilarity(summary_item, wardrobe_item) ==
  get_text_similarity(wardrobe_item.description, Get(summary_item, "description", << >>))

NoFabricNoDescription(summary_item, wardrobe_item) ==
  /\ wardrobe_item.fabric = None /\ wardrobe_item.description = None
  /\ "fabric" \notin summary_item.keys /\ "description" \notin summary_item.keys

C14_WitnessAllTerms ==
  /\ Scored
  /\ TypesAgree(call.summary_item, call.wardrobe_item)
  /\ ColorsAgree(call.summary_item, call.wardrobe_item)
  /\ PatternsAgree(call.summary_item, call.wardrobe_item)
  /\ FabricsAgree(call.summary_item, call.wardrobe_item)
  /\ FloatLess(FloatZero, DescriptionSimilarity(call.summary_item, call.wardrobe_item))
  /\ FloatLess(DescriptionSimilarity(call.summary_item, call.wardrobe_item), FromInt(1))
  /\ FloatLess(FromInt(10), call.score)

-----------------------------------------------------------------------------
(* C15: of two type-matching pairs that are identical except that in one the *)
(* normalized colors are equal and in the other they are not, the            *)
(* color-matching pair scores exactly 2 higher; likewise for the patterns    *)
(* and exactly 4.                                                            *)

\* summary_item with another color, or without one
WithColor(summary_item, c) ==
  [summary_item EXCEPT !.keys = IF c = Absent THEN @ \ { "color" } ELSE @ \cup { "color" },
                       !.color = ValueOr(c, << >>)]

\* summary_item with another pattern, or without one
WithPattern(summary_item, p) ==
  [summary_item EXCEPT !.keys = IF p = Absent THEN @ \ { "pattern" } ELSE @ \cup { "pattern" },
                       !.pattern = ValueOr(p, << >>)]

ColorChoices == { Absent, C_white, C_green }
PatternChoices == { Absent, P_solid, P_dots }

\* the scores of the pairs that differ from the scored pair in the color
\* (pattern) only and in which the colors (patterns) do not agree
ScoresWithoutColorMatch ==
  { get_match_score(WithColor(call.summary_item, c), call.wardrobe_item) :
      c \in { x \in ColorChoices :
                ~ColorsAgree(WithColor(call.summary_item, x), call.wardrobe_item) } }

ScoresWithoutPatternMatch ==
  { get_match_score(WithPattern(call.summary_item, p), call.wardrobe_item) :
      p \in { x \in PatternChoices :
                ~PatternsAgree(WithPattern(call.summary_item, x), call.wardrobe_item) } }

ScoredColorMatch ==
  /\ Scored
  /\ TypesAgree(call.summary_item, call.wardrobe_item)
  /\ ColorsAgree(call.summary_item, call.wardrobe_item)

ScoredPatternMatch ==
  /\ Scored
  /\ TypesAgree(call.summary_item, call.wardrobe_item)
  /\ PatternsAgree(call.summary_item, call.wardrobe_item)

RoundingOfTwoScores == FloatOf(1, << 0, 0, 2 ^ (FractionBits - 49) >>)

\* |x - n| <= 2^-49
WithinRounding(x, n) ==
  /\ ~FloatLess(RoundingOfTwoScores, FloatSub(x, FromInt(n)))
  /\ ~FloatLess(RoundingOfTwoScores, FloatSub(FromInt(n), x))

\* hi and lo are the same description bonus added to integers that differ by
\* points; their difference is points up to rounding, and exactly points when
\* the descriptions are not similar at all or are equal
HigherBy(hi, lo, points) ==
  LET similarity == DescriptionSimilarity(call.summary_item, call.wardrobe_item)
      bonus == TimesOneAndHalf(similarity)
  IN /\ \E n \in 1..(TypePoints + ColorPoints + PatternPoints + FabricPoints) :
          /\ lo = FloatAdd(FromInt(n), bonus)
          /\ hi = FloatAdd(FromInt(n + points), bonus)
     /\ WithinRounding(FloatSub(hi, lo), points)
     /\ similarity \in { FloatZero, FromInt(1) } => FloatSub(hi, lo) = FromInt(points)

-----------------------------------------------------------------------------
(* C16: an empty wardrobe is legal input: every slot of every candidate      *)
(* outfit is recorded as an unmatched sentinel, matching raises no error,    *)
(* and for a suggestion of at least one well-formed outfit the selection     *)
(* returns a Recommendation whose outfit list is empty (status 200).  The    *)
(* only errors of such a request are those of the search and the suggestion  *)
(* steps, of a malformed suggestion and of a suggestion without outfits.     *)

\* the MatchResult of an unmatched slot (lines 173-187)
IsSentinel(entry) ==
  /\ entry.item_id = NoneId
  /\ entry.description = NoMatchFound
  /\ entry.score = FromInt(-1)

\* entries holds one sentinel for each of the items
AllSentinels(entries, items) ==
  /\ Len(entries) = Len(items)
  /\ \A n \in 1..Len(entries) : IsSentinel(entries[n])

C16_EmptyWardrobeIsLegal ==
  wardrobe = << >> =>
    /\ pc \in { "match", "outfit", "slot", "select" } => exc = NoException
    /\ \/ exc = NoException
       \/ IsHTTPError(exc) /\ match_result = NoResult /\ Recs = << >>
       \/ exc.type = "TypeError" /\ match_result.kind = "dict"
       \/ exc.type = "ValueError" /\ match_result = MatchList(<< >>)
    /\ \A k \in 1..Len(outfit_matches) :
         AllSentinels(outfit_matches[k].matched_items, Recs[k].clothing_items)
    /\ pc = "slot" => AllSentinels(matched_items, Last(Recs).clothing_items)
    /\ (pc \in { "respond", "done" } /\ match_result.kind = "list" /\ match_result.list # << >>)
         => /\ exc = NoException
            /\ Len(match_result.list) = Len(Recs)
            /\ recommendation = make_recommendation(user_id, occasion, << >>)
            /\ pc = "done" => response.status_code = 200

\* two outfits, one with a slot that has a category and no type, answered 200
C16_Witness ==
  /\ pc = "done"
  /\ wardrobe = << >>
  /\ Len(match_result.list) = 2
  /\ \E k \in 1..2 : \E n \in 1..Len(Recs[k].clothing_items) :
       CategoryOnly(Recs[k].clothing_items[n])
  /\ Len(match_result.list[1].matched_items) + Len(match_result.list[2].matched_items) = MaxItems
  /\ recommendation.kind = "recommendation"
  /\ recommendation.outfit = << >>
  /\ response.status_code = 200

-----------------------------------------------------------------------------
(* C18: matching and selection never modify the wardrobe: at every step the  *)
(* wardrobe list has the same items in the same order with the same          *)
(* attribute values as before, and the outfits and items of the suggestion   *)
(* that have been read are unchanged too.                                    *)

\* the outfits and clothing items read so far are still what they were
SuggestionKept ==
  /\ Len(Recs') >= Len(Recs)
  /\ \A k \in 1..Len(Recs) :
       /\ Recs'[k].keys = Recs[k].keys
       /\ Recs'[k].outfit_name = Recs[k].outfit_name
       /\ Len(Recs'[k].clothing_items) >= Len(Recs[k].clothing_items)
       /\ \A n \in 1..Len(Recs[k].clothing_items) :
            Recs'[k].clothing_items[n] = Recs[k].clothing_items[n]

C18_InputsNotModified ==
  [][(pc \in { "match", "outfit", "slot", "select" }) =>
       (wardrobe' = wardrobe /\ SuggestionKept)]_vars

\* a request answered after both items of the wardrobe were matched
C18_Witness ==
  /\ pc = "done"
  /\ recommendation.kind = "recommendation"
  /\ Len(wardrobe) = 2
  /\ UniqueIds(wardrobe)
  /\ { wardrobe[i].item_id : i \in 1..2 } \subseteq used_items
  /\ Len(recommendation.outfit) >= 1

-----------------------------------------------------------------------------
(* Requests whose wardrobe holds three items with near-duplicate             *)
(* descriptions, so that a slot meets two items already matched in its       *)
(* outfit                                                                    *)

NearDuplicateWardrobes ==
  { << wA, wB, wD >>, << wD, wB, wA >>, << wE, wB, wD >>, << wB, wE, wD >> }

NearDuplicateInit ==
  /\ pc = "search"
  /\ user_id = "u1" /\ occasion = "networking event"
  /\ wardrobe \in NearDuplicateWardrobes
  /\ outfit_suggestion = EmptySuggestion
  /\ outfit_matches = << >>
  /\ used_items = {}
  /\ matched_items = << >>
  /\ matched_items_objects = << >>
  /\ total_score = FloatZero
  /\ match_result = NoResult
  /\ recommendation = NoRecommendation
  /\ exc = NoException
  /\ response = [status_code |-> 0, error |-> ""]
  /\ call = NoCall
  /\ frames = << >>
  /\ used_cells = << >>

NearDuplicateSpec == NearDuplicateInit /\ [][Next]_vars

-----------------------------------------------------------------------------
(* C20: for a slot processed after other slots of the same outfit were       *)
(* matched, each candidate's adjusted score equals its get_match_score minus *)
(* the sum, over the wardrobe items already matched in this same outfit      *)
(* whose description similarity with the candidate is strictly greater than  *)
(* 0.7, of 2 * that similarity; items with similarity <= 0.7 and items       *)
(* matched in other outfits contribute no penalty, and the first slot of an  *)
(* outfit is never penalized.                                                *)

\* the descriptions of the wardrobe items matched so far in the outfit being
\* processed, in the order they were matched
MatchedInThisOutfit ==
  LET matched == SelectSeq(matched_items, IsMatched)
  IN [n \in 1..Len(matched) |-> matched[n].description]

\* 2 * similarity for an already-matched description that is strictly more
\* than 0.7 similar to the candidate's, 0 otherwise
PenaltyFor(candidate, description) ==
  LET similarity == get_text_similarity(candidate.description, description)
  IN IF FloatLess(FloatDiv(7, 10), similarity) THEN TimesTwo(similarity) ELSE FloatZero

\* score - p1 - p2 - ..., one subtraction after the other
RECURSIVE SubtractEach(_, _, _)
SubtractEach(score, candidate, descriptions) ==
  IF descriptions = << >> THEN score
  ELSE SubtractEach(FloatSub(score, PenaltyFor(candidate, Head(descriptions))),
                    candidate, Tail(descriptions))

\* p1 + p2 + ..., from 0
RECURSIVE SumOfPenalties(_, _)
SumOfPenalties(candidate, descriptions) ==
  IF descriptions = << >> THEN FloatZero
  ELSE FloatAdd(SumOfPenalties(candidate, SubSeq(descriptions, 1, Len(descriptions) - 1)),
                PenaltyFor(candidate, Last(descriptions)))

AdjustedBySum(item, candidate, descriptions) ==
  FloatSub(get_match_score(item, candidate), SumOfPenalties(candidate, descriptions))

AdjustedInOrder(item, candidate, descriptions) ==
  SubtractEach(get_match_score(item, candidate), candidate, descriptions)

\* the slot just recorded went to the candidate with the greatest adjusted
\* score, and that score was recorded
RecordedIsBest(adjusted(_, _, _)) ==
  LET item == Last(Last(Recs').clothing_items)
      entry == Last(matched_items')
  IN /\ \A i \in UnusedSameType(item) :
          ~FloatLess(entry.score, adjusted(item, wardrobe[i], MatchedInThisOutfit))
     /\ IsMatched(entry) =>
          /\ Last(matched_items_objects').item_id \notin used_items
          /\ entry.score = adjusted(item, Last(matched_items_objects'), MatchedInThisOutfit)

\* C20 as stated: the sum of the penalties is subtracted
C20_MinusSumOfPenalties ==
  [][RecordsSlot => RecordedIsBest(AdjustedBySum)]_vars

(* C20 as the code has it: the scores are floats and the penalties are       *)
(* subtracted from the score one after the other, in the order in which the  *)
(* items were matched; with two or more penalties the result can differ in   *)
(* the last place from subtracting their sum.                                *)
C20_MinusEachPenaltyInOrder ==
  [][RecordsSlot => RecordedIsBest(AdjustedInOrder)]_vars

\* the third slot of an outfit was penalized for both items matched before
\* it, and its score is not the match score minus the sum of the penalties
C20_Witness ==
  /\ pc = "slot"
  /\ Len(matched_items) = 3
  /\ \A n \in 1..3 : IsMatched(matched_items[n])
  /\ LET item == Last(Last(Recs).clothing_items)
         candidate == Last(matched_items_objects)
         before == << matched_items[1].description, matched_items[2].description >>
     IN /\ \A n \in 1..2 : PenaltyFor(candidate, before[n]) # FloatZero
        /\ matched_items[3].score = AdjustedInOrder(item, candidate, before)
        /\ matched_items[3].score # AdjustedBySum(item, candidate, before)

\* a slot met an item of its outfit exactly 0.7 similar and was not
\* penalized, after an earlier outfit had matched a near-duplicate
C20_WitnessThreshold ==
  /\ pc = "slot"
  /\ Len(outfit_matches) = 1
  /\ Len(matched_items) = 2
  /\ \A n \in 1..2 : IsMatched(matched_items[n])
  /\ get_text_similarity(matched_items[1].description, matched_items[2].description)
       = FloatDiv(7, 10)
  /\ matched_items[2].score
       = get_match_score(Last(Last(Recs).clothing_items), Last(matched_items_objects))
  /\ \E e \in { outfit_matches[1].matched_items[n] :
                   n \in 1..Len(outfit_matches[1].matched_items) } :
       /\ IsMatched(e)
       /\ FloatLess(FloatDiv(7, 10),
                    get_text_similarity(e.description, matched_items[2].description))

-----------------------------------------------------------------------------
(* Two invocations of matching and selection at once.  Each invocation has   *)
(* a frame with the locals of match_outfit_with_wardrobe and of              *)
(* generate_outfit_recommendation (outfit_service.py 90-105); a step of one  *)
(* invocation is taken between any two steps of the other.                   *)

Invocations == { 1, 2 }

\* where an invocation keeps its used_items set: line 123 creates the set in
\* the frame of the call
used_items_cell_module(r) == 1
used_items_cell(r) == r

Outfit(i, items) ==
  [keys |-> { "outfit_name", "clothing_items" }, outfit_name |-> OutfitName(i),
   clothing_items |-> items]

Suggestion(outfits) ==
  [keys |-> { "outfit_recommendations" }, outfit_recommendations |-> outfits]

\* the inputs of an invocation: the parsed suggestion and the wardrobe
InvocationInputs ==
  { << Suggestion(<< Outfit(1, << sTop, sPlain >>), Outfit(2, << sPlain >>) >>),
       << wA, wB >> >>,
    << Suggestion(<< Outfit(1, << sPants, sPlain >>) >>), << wE, wB >> >>,
    << Suggestion(<< Outfit(1, << sPlain >>), Outfit(2, << sTop >>) >>), << wD, wA >> >>,
    << Suggestion(<< Outfit(1, << sCat >>) >>), << wA >> >>,
    << Suggestion(<< Outfit(1, << sPlain >>),
                     [keys |-> { "outfit_name" }, outfit_name |-> OutfitName(2),
                      clothing_items |-> << >>] >>),
       << wB >> >>,
    << [keys |-> { "summary" }, outfit_recommendations |-> << >>], << wA >> >>,
    << Suggestion(<< >>), << wD >> >> }

\* the frame at the call of match_outfit_with_wardrobe: outfit and item count
\* the outfits and the clothing items the loops have reached
Frame(input) ==
  [pc |-> "match", outfit_suggestion |-> input[1], wardrobe |-> input[2],
   outfit |-> 0, item |-> 0,
   outfit_matches |-> << >>, matched_items |-> << >>, matched_items_objects |-> << >>,
   total_score |-> FloatZero, match_result |-> NoResult,
   recommendation |-> NoRecommendation, exc |-> NoException]

ConcurrentInit ==
  /\ NoRequest
  /\ call = NoCall
  /\ frames \in [Invocations -> { Frame(input) : input \in InvocationInputs }]
  /\ used_cells = [c \in Invocations |-> {}]

\* lines 122-128
FrameEnter(r) ==
  LET f == frames[r]
  IN /\ f.pc = "match"
     /\ used_cells' = [used_cells EXCEPT ![used_items_cell(r)] = {}]
     /\ frames' = [frames EXCEPT ![r] =
          IF lacks_key(f.outfit_suggestion, "outfit_recommendations")
          THEN [f EXCEPT !.pc = "select",
                         !.match_result = ErrorDict("Invalid outfit suggestion format")]
          ELSE [f EXCEPT !.pc = "outfit"]]

\* lines 131-141
FrameNextOutfit(r) ==
  LET f == frames[r]
      outfits == f.outfit_suggestion.outfit_recommendations
  IN /\ f.pc = "outfit"
     /\ f.outfit < Len(outfits)
     /\ frames' = [frames EXCEPT ![r] =
          IF lacks_key(outfits[f.outfit + 1], "clothing_items")
          THEN [f EXCEPT !.pc = "select", !.outfit = @ + 1,
                         !.match_result = ErrorDict("No clothing items in outfit suggestion")]
          ELSE [f EXCEPT !.pc = "slot", !.outfit = @ + 1, !.item = 0,
                         !.matched_items = << >>, !.matched_items_objects = << >>,
                         !.total_score = FloatZero]]
     /\ UNCHANGED used_cells

\* lines 143-187
FrameSlot(r) ==
  LET f == frames[r]
      items == f.outfit_suggestion.outfit_recommendations[f.outfit].clothing_items
      cell == used_items_cell(r)
  IN /\ f.pc = "slot"
     /\ f.item < Len(items)
     /\ \E item \in { items[f.item + 1] } :
        \E found \in { find_best_match(item, f.wardrobe, used_cells[cell],
                                        f.matched_items_objects) } :
           IF found.kind = "KeyError"
           THEN /\ frames' = [frames EXCEPT ![r] =
                     [f EXCEPT !.pc = "done", !.exc = BuiltinError("KeyError")]]
                /\ UNCHANGED used_cells
           ELSE IF found.best # 0
           THEN LET best_match == f.wardrobe[found.best]
                IN /\ frames' = [frames EXCEPT ![r] =
                        [f EXCEPT !.item = @ + 1,
                                  !.matched_items =
                                     Append(@, MatchedEntry(best_match, found.score, item)),
                                  !.matched_items_objects = Append(@, best_match),
                                  !.total_score = add_to_total(@, TRUE, found.score)]]
                   /\ used_cells' = [used_cells EXCEPT ![cell] =
                                       mark_used(@, best_match.item_id)]
           ELSE /\ frames' = [frames EXCEPT ![r] =
                     [f EXCEPT !.item = @ + 1,
                               !.matched_items = Append(@, SentinelEntry(item)),
                               !.total_score = add_to_total(@, FALSE, found.score)]]
                /\ UNCHANGED used_cells

\* lines 189-199
FrameAppendOutfit(r) ==
  LET f == frames[r]
      outfit == f.outfit_suggestion.outfit_recommendations[f.outfit]
  IN /\ f.pc = "slot"
     /\ f.item = Len(outfit.clothing_items)
     /\ frames' = [frames EXCEPT ![r] =
          [f EXCEPT !.pc = "outfit",
                    !.outfit_matches = Append(@, [outfit_name |-> outfit.outfit_name,
                                                  total_score |-> f.total_score,
                                                  matched_items |-> f.matched_items])]]
     /\ UNCHANGED used_cells

\* line 200
FrameReturnMatches(r) ==
  LET f == frames[r]
  IN /\ f.pc = "outfit"
     /\ f.outfit = Len(f.outfit_suggestion.outfit_recommendations)
     /\ frames' = [frames EXCEPT ![r] =
          [f EXCEPT !.pc = "select", !.match_result = MatchList(f.outfit_matches)]]
     /\ UNCHANGED used_cells

\* outfit_service.py lines 92-107
select_outcome(f) ==
  CASE f.match_result.kind = "dict" -> [f EXCEPT !.pc = "done", !.exc = BuiltinError("TypeError")]
    [] f.match_result.kind = "list" /\ f.match_result.list = << >> ->
         [f EXCEPT !.pc = "done", !.exc = BuiltinError("ValueError")]
    [] OTHER ->
         LET highest_score_outfit == f.match_result.list[max_total_score(f.match_result.list)]
             best_item_ids == item_ids_of(highest_score_outfit.matched_items)
             best_items == items_with_ids(f.wardrobe, best_item_ids)
         IN [f EXCEPT !.pc = "done",
                      !.recommendation = make_recommendation("u1", "networking event", best_items)]

FrameSelect(r) ==
  /\ frames[r].pc = "select"
  /\ frames' = [frames EXCEPT ![r] = select_outcome(frames[r])]
  /\ UNCHANGED used_cells

ConcurrentNext ==
  \/ \E r \in Invocations : FrameEnter(r) /\ UNCHANGED << request_state, call >>
  \/ \E r \in Invocations : FrameNextOutfit(r) /\ UNCHANGED << request_state, call >>
  \/ \E r \in Invocations : FrameSlot(r) /\ UNCHANGED << request_state, call >>
  \/ \E r \in Invocations : FrameAppendOutfit(r) /\ UNCHANGED << request_state, call >>
  \/ \E r \in Invocations : FrameReturnMatches(r) /\ UNCHANGED << request_state, call >>
  \/ \E r \in Invocations : FrameSelect(r) /\ UNCHANGED << request_state, call >>

ConcurrentSpec == ConcurrentInit /\ [][ConcurrentNext]_vars

\* One invocation on its own, from its call to its end: the items of an
\* outfit from position i on
RECURSIVE assign_alone(_, _, _, _, _, _, _)
assign_alone(wardrobe_items, items, i, used, matched, objects, total) ==
  IF i > Len(items)
  THEN [kind |-> "ok", matched_items |-> matched, total_score |-> total, used |-> used]
  ELSE LET found == find_best_match(items[i], wardrobe_items, used, objects)
       IN IF found.kind = "KeyError"
          THEN [kind |-> "KeyError", matched_items |-> matched, total_score |-> total,
                used |-> used]
          ELSE IF found.best # 0
          THEN assign_alone(wardrobe_items, items, i + 1,
                            mark_used(used, wardrobe_items[found.best].item_id),
                            Append(matched, MatchedEntry(wardrobe_items[found.best],
                                                         found.score, items[i])),
                            Append(objects, wardrobe_items[found.best]),
                            add_to_total(total, TRUE, found.score))
          ELSE assign_alone(wardrobe_items, items, i + 1, used,
                            Append(matched, SentinelEntry(items[i])), objects,
                            add_to_total(total, FALSE, found.score))

\* the outfits from position k on
RECURSIVE match_alone(_, _, _, _, _)
match_alone(outfits, wardrobe_items, k, used, results) ==
  IF k > Len(outfits) THEN [exc |-> NoException, match_result |-> MatchList(results)]
  ELSE IF lacks_key(outfits[k], "clothing_items")
  THEN [exc |-> NoException,
        match_result |-> ErrorDict("No clothing items in outfit suggestion")]
  ELSE LET a == assign_alone(wardrobe_items, outfits[k].clothing_items, 1, used,
                             << >>, << >>, FloatZero)
       IN IF a.kind = "KeyError"
          THEN [exc |-> BuiltinError("KeyError"), match_result |-> NoResult]
          ELSE match_alone(outfits, wardrobe_items, k + 1, a.used,
                           Append(results, [outfit_name |-> outfits[k].outfit_name,
                                            total_score |-> a.total_score,
                                            matched_items |-> a.matched_items]))

\* what the invocation leaves: the match results, the Recommendation, the
\* exception
run_alone(outfit_suggestion_, wardrobe_items) ==
  LET matched == IF lacks_key(outfit_suggestion_, "outfit_recommendations")
                 THEN [exc |-> NoException,
                       match_result |-> ErrorDict("Invalid outfit suggestion format")]
                 ELSE match_alone(outfit_suggestion_.outfit_recommendations,
                                  wardrobe_items, 1, {}, << >>)
      f == [Frame(<< outfit_suggestion_, wardrobe_items >>)
              EXCEPT !.match_result = matched.match_result, !.exc = matched.exc]
      end == IF matched.exc = NoException THEN select_outcome(f) ELSE f
  IN [match_result |-> end.match_result, recommendation |-> end.recommendation,
      exc |-> end.exc]

\* what invocation r has left
Outcome(r) ==
  [match_result |-> frames[r].match_result, recommendation |-> frames[r].recommendation,
   exc |-> frames[r].exc]

Finished(r) == frames # << >> /\ frames[r].pc = "done"

SameInputs(q, r) ==
  /\ frames[q].outfit_suggestion = frames[r].outfit_suggestion
  /\ frames[q].wardrobe = frames[r].wardrobe

-----------------------------------------------------------------------------
(* C17: matching plus selection is deterministic: two runs on the same       *)
(* parsed suggestion and the same wardrobe, in the same order, yield         *)
(* identical outfit match results and an identical Recommendation.           *)

C17_SameInputsSameOutcome ==
  \A q, r \in Invocations :
    (Finished(q) /\ Finished(r) /\ SameInputs(q, r)) => Outcome(q) = Outcome(r)

\* two runs on the same two outfits and two wardrobe items, each matching both
\* items and recommending the second outfit's
C17_Witness ==
  /\ Finished(1) /\ Finished(2)
  /\ SameInputs(1, 2)
  /\ Len(frames[1].match_result.list) = 2
  /\ frames[1].recommendation.outfit = << wA >>
  /\ Outcome(1) = Outcome(2)
  /\ used_cells[1] = { "A", "D" } /\ used_cells[2] = { "A", "D" }

-----------------------------------------------------------------------------
(* C19: invocations of the matching engine share no mutable state: the       *)
(* used-item set, the matching set and the results are local to one          *)
(* invocation, so that under any interleaving of two invocations each yields *)
(* the result of running it alone, and a later invocation is unaffected by   *)
(* the items an earlier one used.                                            *)

C19_SameAsRunningAlone ==
  \A r \in Invocations :
    Finished(r) => Outcome(r) = run_alone(frames[r].outfit_suggestion, frames[r].wardrobe)

\* two invocations on different inputs have both matched the item with id A
C19_Witness ==
  /\ Finished(1) /\ Finished(2)
  /\ ~SameInputs(1, 2)
  /\ \A r \in Invocations :
       /\ frames[r].recommendation.kind = "recommendation"
       /\ \E i \in 1..Len(frames[r].recommendation.outfit) :
            frames[r].recommendation.outfit[i].item_id = "A"
       /\ "A" \in used_cells[r]

-----------------------------------------------------------------------------
(* C21: whenever a slot is matched, the chosen wardrobe item has the highest *)
(* adjusted score among all not-yet-used wardrobe items of the same          *)
(* normalized type; among the candidates tied at that score the one that     *)
(* comes first in the wardrobe is chosen; and the score recorded in the      *)
(* MatchResult is that adjusted score.                                       *)

\* a step of MatchSlot that records a matched MatchResult
MatchesSlot == RecordsSlot /\ IsMatched(Last(matched_items'))

\* the position in the wardrobe of the item the step has matched
ChosenPosition == CHOOSE i \in 1..Len(wardrobe) : wardrobe[i] = Last(matched_items_objects')

\* the adjusted score of the wardrobe item at position i for the slot of the step
AdjustedAt(i) ==
  adjusted_score(Last(Last(Recs').clothing_items), wardrobe[i], matched_items_objects)

C21_HighestAdjustedFirstOfTied ==
  [][MatchesSlot =>
       \E p \in { ChosenPosition } :
         LET candidates == UnusedSameType(Last(Last(Recs').clothing_items))
         IN /\ p \in candidates
            /\ \A i \in candidates : ~FloatLess(AdjustedAt(p), AdjustedAt(i))
            /\ \A i \in candidates : i < p => FloatLess(AdjustedAt(i), AdjustedAt(p))
            /\ Last(matched_items').score = AdjustedAt(p)
            /\ Last(matched_items').item_id = wardrobe[p].item_id]_vars

\* a slot took the first of two candidates tied at the highest adjusted score
C21_Witness ==
  /\ pc = "slot"
  /\ matched_items # << >>
  /\ IsMatched(Last(matched_items))
  /\ UniqueIds(wardrobe)
  /\ \E i, j \in 1..Len(wardrobe) :
       /\ i < j
       /\ wardrobe[i] = Last(matched_items_objects)
       /\ wardrobe[j].item_id \notin used_items
       /\ normalize(wardrobe[j].type) = normalize(Last(matched_items).suggestion.type)
       /\ adjusted_score(Last(Last(Recs).clothing_items), wardrobe[j],
                         SubSeq(matched_items_objects, 1, Len(matched_items_objects) - 1))
            = Last(matched_items).score

-----------------------------------------------------------------------------
(* C22: a slot with a type for which the wardrobe holds no item of the same  *)
(* normalized type is recorded as a sentinel MatchResult with item_id null   *)
(* and score -1; recording it raises no error, leaves the used-item set and  *)
(* the matching set unchanged, and processing continues with the next slot.  *)

\* a step of MatchSlot: the loop of line 143 has read one more clothing item
ReadsSlot == pc = "slot" /\ ItemsRead(Recs') = ItemsRead(Recs) + 1

\* the wardrobe holds no item of the garment type the item names
NoItemOfType(item) ==
  /\ "type" \in item.keys
  /\ \A i \in 1..Len(wardrobe) : ~SameGarmentType(wardrobe[i].type, item.type)

-----------------------------------------------------------------------------
(* C23: for a well-formed suggestion, what match_outfit_with_wardrobe        *)
(* returns holds exactly one OutfitMatchResult per candidate outfit, in      *)
(* input order, each with exactly one MatchResult per slot, in slot order;   *)
(* an outfit whose slots are all unmatched, or that has no slot, is in the   *)
(* results too and takes part in the selection.                              *)

\* the MatchResults are those of the items, one for one and in order
OnePerSlot(entries, items) ==
  /\ Len(entries) = Len(items)
  /\ \A n \in 1..Len(items) :
       /\ entries[n].suggestion = SuggestionOf(items[n])
       /\ IsMatched(entries[n]) =>
            SameGarmentType(entries[n].type, SummaryType(items[n]))

\* no slot of the outfit was matched
NothingMatched(outfit) == MatchedIds(outfit.matched_items) = {}

C23_OnePerOutfitOnePerSlot ==
  (match_result.kind = "list" /\ ~Malformed) =>
    /\ Len(match_result.list) = Len(Recs)
    /\ \A k \in 1..Len(Recs) :
         /\ match_result.list[k].outfit_name = Recs[k].outfit_name
         /\ OnePerSlot(match_result.list[k].matched_items, Recs[k].clothing_items)
    /\ recommendation.kind = "recommendation" =>
         \E w \in 1..Len(match_result.list) :
           /\ recommendation.outfit = ResolvedItems(match_result.list[w])
           /\ \A k \in 1..Len(match_result.list) :
                ~FloatLess(match_result.list[w].total_score, match_result.list[k].total_score)
           /\ (\E k \in 1..Len(match_result.list) :
                 /\ NothingMatched(match_result.list[k])
                 /\ \A j \in 1..Len(match_result.list) :
                      j # k => FloatLess(match_result.list[j].total_score,
                                         match_result.list[k].total_score))
                => recommendation.outfit = << >>

\* of two outfits the first has slots and none matched, the second has two
\* slots, the first of them matched; a recommendation was made
C23_Witness ==
  /\ recommendation.kind = "recommendation"
  /\ wardrobe # << >>
  /\ Len(match_result.list) = 2
  /\ Len(Recs[1].clothing_items) >= 1
  /\ NothingMatched(match_result.list[1])
  /\ Len(Recs[2].clothing_items) = 2
  /\ IsMatched(match_result.list[2].matched_items[1])
  /\ Recs[2].clothing_items[1] # Recs[2].clothing_items[2]

\* an outfit without slots and without matches was selected
C23_WitnessNoSlots ==
  /\ recommendation.kind = "recommendation"
  /\ wardrobe # << >>
  /\ Len(match_result.list) = 2
  /\ Recs[1].clothing_items = << >>
  /\ Len(Recs[2].clothing_items) >= 1
  /\ NothingMatched(match_result.list[2])
  /\ recommendation.outfit = << >>

-----------------------------------------------------------------------------
(* normalize and get_text_similarity on their own: one call on texts of up   *)
(* to MaxText characters                                                     *)

MaxText == 3

\* letters of both cases, a digit, punctuation and whitespace
TextAlphabet == { "D", "d", "k", "7", "-", " " }

\* the texts of at most n characters
TextsUpTo(n) == UNION { [1..k -> TextAlphabet] : k \in 0..n }

D_DarkBrown == << "D", "a", "r", "k", "-", "B", "r", "o", "w", "n" >>
D_darkbrown == << "d", "a", "r", "k", " ", "b", "r", "o", "w", "n" >>

\* text: Optional[str]
NormalizeInputs == TextsUpTo(MaxText) \cup { None, D_DarkBrown, D_darkbrown }

SimilarityInputs == TextsUpTo(MaxText - 1) \cup { None, D_WhiteShirt, D_whiteskirt }

TextInit ==
  /\ NoRequest
  /\ \/ \E t \in NormalizeInputs :
          call = [fn |-> "normalize", text |-> t, returned |-> FALSE, result |-> << >>]
     \/ \E t1 \in SimilarityInputs, t2 \in SimilarityInputs :
          call = [fn |-> "get_text_similarity", text1 |-> t1, text2 |-> t2,
                  returned |-> FALSE, result |-> FloatZero]
  /\ frames = << >>
  /\ used_cells = << >>

Normalize ==
  /\ call.fn = "normalize"
  /\ ~call.returned
  /\ call' = [call EXCEPT !.returned = TRUE, !.result = normalize(call.text)]
  /\ UNCHANGED << request_state, frames, used_cells >>

GetTextSimilarity ==
  /\ call.fn = "get_text_similarity"
  /\ ~call.returned
  /\ call' = [call EXCEPT !.returned = TRUE,
                          !.result = get_text_similarity(call.text1, call.text2)]
  /\ UNCHANGED << request_state, frames, used_cells >>

TextNext == Normalize \/ GetTextSimilarity

TextSpec == TextInit /\ [][TextNext]_vars

-----------------------------------------------------------------------------
(* C24: normalize maps None and the empty string to the empty string, and    *)
(* any other text to the text lowercased with every character outside a-z    *)
(* and 0-9 removed; it is idempotent; and texts that differ only in case,    *)
(* whitespace or punctuation ("Dark-Brown", "dark brown") normalize to the   *)
(* same string.                                                              *)

Normalized == call.fn = "normalize" /\ call.returned

\* the text lowercased, character by character, without the characters that
\* are no lower-case letter and no digit
RECURSIVE LowercasedAlnumOnly(_)
LowercasedAlnumOnly(text) ==
  IF text = << >> THEN << >>
  ELSE (IF \E i \in 1..26 : Head(text) \in { UpperCase[i], LowerCase[i] }
        THEN << LowerCase[CHOOSE i \in 1..26 : Head(text) \in { UpperCase[i], LowerCase[i] }] >>
        ELSE IF Head(text) \in Digits THEN << Head(text) >>
        ELSE << >>)
       \o LowercasedAlnumOnly(Tail(text))

WhitespaceAndPunctuation == { " ", "-", ".", ",", "_", "'" }

\* the text without whitespace and punctuation
Unpunctuated(text) == SelectSeq(text, LAMBDA ch : ch \notin WhitespaceAndPunctuation)

SameLetter(c1, c2) ==
  c1 = c2 \/ \E i \in 1..26 : { c1, c2 } = { UpperCase[i], LowerCase[i] }

\* the two texts differ only in case, whitespace or punctuation
DifferOnlyInCaseAndPunctuation(a, b) ==
  /\ a # None /\ b # None
  /\ Len(Unpunctuated(a)) = Len(Unpunctuated(b))
  /\ \A i \in 1..Len(Unpunctuated(a)) : SameLetter(Unpunctuated(a)[i], Unpunctuated(b)[i])

C24_NormalizeLowercaseAlnum ==
  Normalized =>
    /\ (call.text = None \/ call.text = << >>) => call.result = << >>
    /\ call.text # None => call.result = LowercasedAlnumOnly(call.text)
    /\ normalize(call.result) = call.result
    /\ \A other \in NormalizeInputs :
         DifferOnlyInCaseAndPunctuation(call.text, other) => normalize(other) = call.result

\* "Dark-Brown" gave "darkbrown"
C24_Witness ==
  /\ Normalized
  /\ call.text = D_DarkBrown
  /\ call.result = << "d", "a", "r", "k", "b", "r", "o", "w", "n" >>
  /\ DifferOnlyInCaseAndPunctuation(call.text, D_darkbrown)

\* None gave the empty string
C24_WitnessNone == Normalized /\ call.text = None /\ call.result = << >>

-----------------------------------------------------------------------------
(* C25: get_text_similarity returns a value in [0, 1] for every pair of      *)
(* inputs, and returns 0 whenever either input is absent or empty, also when *)
(* an input is empty after normalization (a punctuation-only string).        *)

Compared == call.fn = "get_text_similarity" /\ call.returned

\* the text is None, empty, or empty once normalized
EmptyText(text) == text = None \/ text = << >> \/ LowercasedAlnumOnly(text) = << >>

C25_ZeroWhenEitherEmpty ==
  Compared =>
    /\ ~FloatLess(call.result, FloatZero)
    /\ ~FloatLess(FromInt(1), call.result)
    /\ (EmptyText(call.text1) \/ EmptyText(call.text2)) => call.result = FloatZero

-----------------------------------------------------------------------------
(* C26: absent attributes count as equal in get_match_score: for a pair      *)
(* whose types agree, a color that is absent or empty on both sides still    *)
(* earns the 2 points of the color, a pattern absent on both sides the 4     *)
(* points of the pattern, so a pair with no color, pattern, fabric or        *)
(* description on either side scores 7; the 3 points of the fabric are never *)
(* given when either fabric is empty.                                        *)

\* the wardrobe item has no value for the attribute; the dict has none
Missing(value) == value = None \/ value = << >>
MissingKey(summary_item, k) == k \notin summary_item.keys \/ summary_item[k] = << >>

MissingOnBothSides(summary_item, wardrobe_item, k) ==
  MissingKey(summary_item, k) /\ Missing(wardrobe_item[k])

C26_WitnessFabric ==
  /\ Scored
  /\ TypesAgree(call.summary_item, call.wardrobe_item)
  /\ call.wardrobe_item.fabric = F_wool
  /\ "fabric" \notin call.summary_item.keys
  /\ MissingOnBothSides(call.summary_item, call.wardrobe_item, "color")
  /\ call.wardrobe_item.pattern = P_Solid
  /\ call.summary_item.pattern = P_dots
  /\ "description" \notin call.summary_item.keys
  /\ call.score = FromInt(3)

-----------------------------------------------------------------------------
(* C27: every matched MatchResult has a recorded score strictly greater than *)
(* -1, and every sentinel MatchResult has the score -1 and the item_id null; *)
(* a candidate whose adjusted score is -1 or less is never returned.         *)

\* the entry was built by lines 173-187
IsNoMatchEntry(entry) == entry.description = NoMatchFound /\ entry.color = << >>

C27_MatchedAboveMinusOne ==
  /\ \A e \in RecordedEntries :
       /\ IsMatched(e) =>
            /\ FloatLess(FromInt(-1), e.score)
            /\ \E i \in 1..Len(wardrobe) :
                 wardrobe[i].item_id = e.item_id /\ wardrobe[i].description = e.description
       /\ ~IsMatched(e) => e.score = FromInt(-1)
       /\ IsNoMatchEntry(e) => e.item_id = NoneId /\ e.score = FromInt(-1)
  /\ (pc = "slot" /\ matched_items # << >> /\ IsMatched(Last(matched_items))) =>
       FloatLess(FromInt(-1),
                 adjusted_score(Last(Last(Recs).clothing_items), Last(matched_items_objects),
                                SubSeq(matched_items_objects, 1, Len(matched_items_objects) - 1)))

\* a slot went unmatched although an unused item of its type was there: the
\* penalty had brought that item's score down to exactly -1
C27_Witness ==
  /\ pc = "slot"
  /\ Len(matched_items) = 2
  /\ IsMatched(matched_items[1])
  /\ ~IsMatched(matched_items[2])
  /\ matched_items[2].score = FromInt(-1)
  /\ \E i \in UnusedSameType(Last(Last(Recs).clothing_items)) :
       adjusted_score(Last(Last(Recs).clothing_items), wardrobe[i], matched_items_objects)
         = FromInt(-1)

\* a slot was matched with a score between -1 and 0
C27_WitnessNegative ==
  /\ pc = "slot"
  /\ Len(matched_items) = 2
  /\ IsMatched(matched_items[2])
  /\ FloatLess(FromInt(-1), matched_items[2].score)
  /\ FloatLess(matched_items[2].score, FloatZero)

-----------------------------------------------------------------------------
(* C28: throughout one invocation of match_outfit_with_wardrobe the          *)
(* used-item set is exactly the set of the item_ids of all matched           *)
(* MatchResults recorded so far in that invocation, over every outfit        *)
(* processed up to that point; it only grows, by exactly one id per matched  *)
(* slot, and is never cleared or shrunk.                                     *)

\* the number of matched MatchResults in a list of them
MatchedCount(entries) == Len(SelectSeq(entries, IsMatched))

RECURSIVE MatchedCountOfAll(_)
MatchedCountOfAll(outfits) ==
  IF outfits = << >> THEN 0
  ELSE MatchedCount(Head(outfits).matched_items) + MatchedCountOfAll(Tail(outfits))

\* the call of match_outfit_with_wardrobe is running
Matching == pc \in { "outfit", "slot" }

C28_UsedIsMatchedSoFar ==
  Matching =>
    /\ used_items = UNION { MatchedIds(outfit_matches[k].matched_items) :
                              k \in 1..Len(outfit_matches) }
                    \cup (IF pc = "slot" THEN MatchedIds(matched_items) ELSE {})
    /\ Cardinality(used_items)
         = MatchedCountOfAll(outfit_matches)
           + (IF pc = "slot" THEN MatchedCount(matched_items) ELSE 0)

\* the steps of the call: one new id for a matched slot, no change otherwise
C28_GrowsByOnePerMatch ==
  [][Matching =>
       IF MatchesSlot
       THEN /\ Last(matched_items').item_id \notin used_items
            /\ used_items' = used_items \cup { Last(matched_items').item_id }
       ELSE used_items' = used_items]_vars

C28_UsedSetTracksMatches ==
  []C28_UsedIsMatchedSoFar /\ C28_GrowsByOnePerMatch

\* the second outfit is being matched; each outfit has taken one item
C28_Witness ==
  /\ pc = "slot"
  /\ Len(outfit_matches) = 1
  /\ MatchedCount(outfit_matches[1].matched_items) = 1
  /\ MatchedCount(matched_items) = 1
  /\ Cardinality(used_items) = 2
  /\ Len(wardrobe) = 2

-----------------------------------------------------------------------------
(* C29: for a wardrobe with unique item_ids, the recommendation's outfit     *)
(* list is in the order of the wardrobe, not of the slots of the winning     *)
(* outfit, holds no wardrobe item twice, and has as many items as the        *)
(* winning outfit has matched slots; a sentinel slot resolves to no item.    *)

\* the position in the wardrobe of the n-th recommended item (0 for none)
WardrobePosition(n) ==
  IF \E i \in 1..Len(wardrobe) : wardrobe[i] = recommendation.outfit[n]
  THEN CHOOSE i \in 1..Len(wardrobe) : wardrobe[i] = recommendation.outfit[n]
  ELSE 0

\* the winning OutfitMatchResult
Winner == match_result.list[max_total_score(match_result.list)]

C29_RecommendationInWardrobeOrder ==
  (recommendation.kind = "recommendation" /\ UniqueIds(wardrobe)) =>
    /\ \A n \in 1..Len(recommendation.outfit) : WardrobePosition(n) # 0
    /\ \A n, m \in 1..Len(recommendation.outfit) :
         n < m => WardrobePosition(n) < WardrobePosition(m)
    /\ Len(recommendation.outfit) = MatchedCount(Winner.matched_items)
    /\ \A n \in 1..Len(recommendation.outfit) :
         \E s \in 1..Len(Winner.matched_items) :
           /\ IsMatched(Winner.matched_items[s])
           /\ Winner.matched_items[s].item_id = recommendation.outfit[n].item_id

\* the winning outfit matched its first slot to the second wardrobe item and
\* its last slot to the first, with a sentinel in between
C29_Witness ==
  /\ recommendation.kind = "recommendation"
  /\ UniqueIds(wardrobe)
  /\ Len(recommendation.outfit) = 2
  /\ Len(Winner.matched_items) = 3
  /\ Winner.matched_items[1].item_id = wardrobe[2].item_id
  /\ ~IsMatched(Winner.matched_items[2])
  /\ Winner.matched_items[3].item_id = wardrobe[1].item_id
  /\ recommendation.outfit = wardrobe

-----------------------------------------------------------------------------
(* C30: generate_outfit_recommendation runs its steps in the order reference *)
(* search, suggestion generation and parsing, wardrobe matching, selection.  *)
(* When the search returns no results a BadRequestError is raised and        *)
(* neither the suggestion step nor the matching is ever executed; when the   *)
(* parsed suggestion is empty a BadRequestError is raised and the matching   *)
(* is never executed; in either case no recommendation is returned.          *)

\* the step of generate_outfit_recommendation a request is at; 5 and 6 are
\* those of recommend_outfit
Step(at) ==
  CASE at = "search" -> 1
    [] at = "suggest" -> 2
    [] at \in { "match", "outfit", "slot" } -> 3
    [] at = "select" -> 4
    [] at = "respond" -> 5
    [] at = "done" -> 6

SearchFoundNothing == exc = BadRequestError("search_results")
SuggestionWasEmpty == exc = BadRequestError("outfit_suggestion")

\* neither the matching nor the selection has run
MatchingNotRun ==
  /\ outfit_matches = << >> /\ used_items = {} /\ matched_items = << >>
  /\ match_result = NoResult
  /\ recommendation = NoRecommendation

C30_InOrder ==
  /\ Step(pc) >= 2 => (exc = NoException \/ pc \in { "respond", "done" })
  /\ Step(pc) \in { 3, 4 } => outfit_suggestion.keys # {}
  /\ Step(pc) = 4 => match_result # NoResult
  /\ recommendation # NoRecommendation => (Step(pc) >= 5 /\ match_result.kind = "list")
  /\ SearchFoundNothing =>
       /\ pc \in { "respond", "done" }
       /\ outfit_suggestion = EmptySuggestion
       /\ MatchingNotRun
       /\ pc = "done" => response.status_code = 400
  /\ SuggestionWasEmpty =>
       /\ pc \in { "respond", "done" }
       /\ outfit_suggestion.keys = {}
       /\ outfit_suggestion.outfit_recommendations = << >>
       /\ MatchingNotRun
       /\ pc = "done" => response.status_code = 400

C30_StepByStep ==
  [][/\ Step(pc') \in { Step(pc), Step(pc) + 1, 5, 6 }
     /\ Step(pc') >= Step(pc)
     /\ (SearchFoundNothing \/ SuggestionWasEmpty) =>
          /\ Step(pc') > Step(pc)
          /\ exc' = exc
          /\ outfit_suggestion' = outfit_suggestion
          /\ UNCHANGED match_locals
          /\ recommendation' = NoRecommendation]_vars

C30_StepsInOrderAndRefusals == []C30_InOrder /\ C30_StepByStep

\* the search found nothing and the request was answered 400
C30_Witness ==
  /\ pc = "done"
  /\ SearchFoundNothing
  /\ wardrobe # << >>
  /\ response = [status_code |-> 400, error |-> "search_results"]

\* the suggestion was empty and the request was answered 400
C30_WitnessEmptySuggestion ==
  /\ pc = "done"
  /\ SuggestionWasEmpty
  /\ wardrobe # << >>
  /\ response = [status_code |-> 400, error |-> "outfit_suggestion"]

====
